---- MODULE Spec2Model ----
(***************************************************************************)
(* The enrichment pipeline of the food-access map (jaysonsao/equitable):   *)
(* the farmers-market ingest script, its rate-limited, cached and retrying *)
(* geocoding client, the neighborhood assignment and the upsert sink.      *)
(*                                                                         *)
(* Conventions.                                                            *)
(*   - Python's None is the empty tuple; a non-null value v of a nullable  *)
(*     field is the one-element tuple <<v>>.                               *)
(*   - Text that the program inspects character by character (row fields,  *)
(*     queries, keys) is a sequence of one-character strings; text it only *)
(*     passes on (statuses, place ids) is a string.                        *)
(*   - Time is counted in ticks of 0.5 time-units (the initial backoff).   *)
(*     Time passes only where the program blocks: in RateLimiter.wait, in  *)
(*     the backoff sleep and in the network call.                          *)
(*   - SHA-256 is taken to be injective: a digest is written as its        *)
(*     pre-image, the '|'-joined canonical parts.                          *)
(***************************************************************************)
EXTENDS Integers, Sequences, FiniteSets, TLC

VARIABLES
    env,             \* the universe of a behaviour: what the provider may answer, what the operator may pass
    pc,              \* control point of main / geocode_address
    args,            \* main: the command line and environment of the run
    input,           \* main: df, the rows of the input file
    idx,             \* main: number of rows the loop has consumed
    stats,           \* main: the run's counters
    rejects,         \* main: the reject list, in memory
    doc,             \* main: the document of the row in hand
    trace,           \* observer: the stages the row in hand went through
    outcome,         \* observer: what the latest upsert_unit call returned
    limiter,         \* RateLimiter: max_qps, and _last_call kept as the time since it
    call,            \* locals of the geocode_address call in progress
    geocode_result,  \* the structure geocode_address returned
    lastGap,         \* observer: time between the two latest outbound requests of the run, as far as min_interval
    firstLookup,     \* observer: per query hash, what the network lookup that filled the cache returned
    cache,           \* geocode_cache collection: geocode_query_hash -> entry
    units,           \* the units collection: a set of documents
    rejects_file,    \* the reject file on disk
    clock,           \* datetime.now(timezone.utc), as the ordinal of the stamp
    calls,           \* number of geocode_address calls the stand-alone caller has made
    runs             \* number of runs of main started

geoVars == <<limiter, call, geocode_result, lastGap, firstLookup>>
runVars == <<args, input, idx, stats, rejects, doc, trace, outcome>>
vars == <<env, pc, runVars, geoVars, cache, units, rejects_file, clock, calls, runs>>

\* ------------------------------------------------------------------ bounds

MaxLatency == 1
MaxCalls == 2
MaxRuns == 2

\* ------------------------------------------------------------ Python values

None == <<>>
Some(x) == <<x>>
Val(v) == v[1]

Max(a, b) == IF a >= b THEN a ELSE b
Min(a, b) == IF a <= b THEN a ELSE b

\* --------------------------------------------------------------------- text

UpperCase == <<"A", "B", "C", "D", "E", "F", "G", "H", "I", "J", "K", "L", "M",
               "N", "O", "P", "Q", "R", "S", "T", "U", "V", "W", "X", "Y", "Z">>
LowerCase == <<"a", "b", "c", "d", "e", "f", "g", "h", "i", "j", "k", "l", "m",
               "n", "o", "p", "q", "r", "s", "t", "u", "v", "w", "x", "y", "z">>
Digits == {"0", "1", "2", "3", "4", "5", "6", "7", "8", "9"}

IsUpper(c) == \E i \in 1..Len(UpperCase) : UpperCase[i] = c
IsLower(c) == \E i \in 1..Len(LowerCase) : LowerCase[i] = c
IsLetter(c) == IsUpper(c) \/ IsLower(c)
IsSpace(c) == c \in {" ", "\t"}

Lower(c) == IF IsUpper(c) THEN LowerCase[CHOOSE i \in 1..Len(UpperCase) : UpperCase[i] = c] ELSE c
Upper(c) == IF IsLower(c) THEN UpperCase[CHOOSE i \in 1..Len(LowerCase) : LowerCase[i] = c] ELSE c

\* str.lower()
LowerText(s) == [i \in 1..Len(s) |-> Lower(s[i])]

RECURSIVE LStrip(_)
LStrip(s) == IF s # <<>> /\ IsSpace(Head(s)) THEN LStrip(Tail(s)) ELSE s

RECURSIVE RStrip(_)
RStrip(s) == IF s # <<>> /\ IsSpace(s[Len(s)]) THEN RStrip(SubSeq(s, 1, Len(s) - 1)) ELSE s

\* str.strip()
Strip(s) == RStrip(LStrip(s))

\* re.sub(r"\s+", " ", text): every run of whitespace becomes one space
RECURSIVE SquashSpaces(_)
SquashSpaces(s) ==
    IF s = <<>> THEN <<>>
    ELSE IF IsSpace(Head(s))
         THEN <<" ">> \o SquashSpaces(LStrip(s))
         ELSE <<Head(s)>> \o SquashSpaces(Tail(s))

\* str.title(): a letter after a letter is lower-cased, any other letter upper-cased
RECURSIVE TitleFrom(_, _)
TitleFrom(s, afterLetter) ==
    IF s = <<>> THEN <<>>
    ELSE <<IF afterLetter THEN Lower(Head(s)) ELSE Upper(Head(s))>>
            \o TitleFrom(Tail(s), IsLetter(Head(s)))

\* re.sub(r"\D", "", raw)
RECURSIVE DigitsOf(_)
DigitsOf(s) ==
    IF s = <<>> THEN <<>>
    ELSE (IF Head(s) \in Digits THEN <<Head(s)>> ELSE <<>>) \o DigitsOf(Tail(s))

\* str.zfill(5)
RECURSIVE ZFill5(_)
ZFill5(s) == IF Len(s) >= 5 THEN s ELSE ZFill5(<<"0">> \o s)

RECURSIVE JoinBar(_)
JoinBar(parts) ==
    IF Len(parts) = 0 THEN <<>>
    ELSE IF Len(parts) = 1 THEN parts[1]
    ELSE parts[1] \o <<"|">> \o JoinBar(Tail(parts))

\* pat occurs in s at position i
OccursAt(s, pat, i) == i >= 1 /\ i + Len(pat) - 1 <= Len(s) /\ SubSeq(s, i, i + Len(pat) - 1) = pat
Contains(s, pat) == \E i \in 1..Len(s) : OccursAt(s, pat, i)
IsWordChar(c) == IsLetter(c) \/ c \in Digits \/ c = "_"
\* re.search(r"\bpat\b", s) for a pattern of word characters
ContainsWord(s, pat) ==
    \E i \in 1..Len(s) :
        /\ OccursAt(s, pat, i)
        /\ (i = 1 \/ ~IsWordChar(s[i - 1]))
        /\ (i + Len(pat) > Len(s) \/ ~IsWordChar(s[i + Len(pat)]))

\* ------------------------------------------------------------ Canonicalizer

clean_text(value) ==
    IF value = None THEN None
    ELSE IF Strip(Val(value)) = <<>> THEN None ELSE Some(Strip(Val(value)))

collapse_spaces(text) == Strip(SquashSpaces(text))

title_case_city(city) ==
    IF city = None \/ city = Some(<<>>) THEN None
    ELSE Some(TitleFrom(collapse_spaces(Val(city)), FALSE))

normalize_zip(value) ==
    LET raw == clean_text(value) IN
    IF raw = None THEN None
    ELSE LET digits == DigitsOf(Val(raw)) IN
         IF digits = <<>> THEN None
         ELSE IF Len(digits) >= 5 THEN Some(SubSeq(digits, 1, 5))
         ELSE Some(ZFill5(digits))

\* a key part that keeps the case of its letters
canonicalize_keeps_case(value) ==
    IF value = None THEN <<>> ELSE collapse_spaces(Val(value))

canonicalize_key_part(value) ==
    IF value = None THEN <<>> ELSE LowerText(collapse_spaces(Val(value)))

\* hashlib.sha256 of the joined canonical parts, the digest standing for its pre-image
sha256_hash(parts) == JoinBar([i \in 1..Len(parts) |-> canonicalize_key_part(parts[i])])

\* ------------------------------------------------------- geocoding client

SOURCE_NAME == <<"M", "a", "s", "s", "G", "r", "o", "w", "n">>
T_google_geocode == <<"g", "o", "o", "g", "l", "e", "_", "g", "e", "o", "c", "o", "d", "e">>
T_MA == <<"M", "A">>
T_US == <<"U", "S">>
BOSTON_BOUNDS ==
    <<"4", "2", ".", "2", "0", ",", "-", "7", "1", ".", "3", "0", "|",
      "4", "2", ".", "4", "5", ",", "-", "7", "0", ".", "9", "5">>
STORE_MODE_COORDS == "store_coords"
STORE_MODE_PLACE_ID_ONLY == "store_place_id_only"

geocode_query_hash(query) ==
    sha256_hash(<<Some(T_google_geocode), Some(query), Some(T_MA), Some(T_US), Some(BOSTON_BOUNDS)>>)

max_attempts == 5
InitialBackoff == 1
RetryableCodes == {429, 500, 502, 503, 504}
\* a backoff that grows by the initial delay instead of doubling
NextBackoffLinear(backoff) == backoff + 1
NextBackoff(backoff) == backoff * 2

\* a confidence taken from the location type alone
confidence_of_type(location_type, partial_match) ==
    IF location_type = None \/ location_type = Some("") THEN None
    ELSE IF location_type = Some("ROOFTOP") THEN Some("high")
    ELSE IF location_type \in {Some("RANGE_INTERPOLATED"), Some("GEOMETRIC_CENTER")}
    THEN Some("medium")
    ELSE Some("low")

compute_confidence(location_type, partial_match) ==
    IF location_type = None \/ location_type = Some("") THEN None
    ELSE IF location_type = Some("ROOFTOP") /\ ~(partial_match = Some(TRUE)) THEN Some("high")
    ELSE IF location_type \in {Some("RANGE_INTERPOLATED"), Some("GEOMETRIC_CENTER")}
            /\ ~(partial_match = Some(TRUE)) THEN Some("medium")
    ELSE Some("low")

NullFields(status) ==
    [status |-> status, place_id |-> None, formatted_address |-> None,
     location_type |-> None, partial_match |-> None, lat |-> None, lng |-> None,
     confidence |-> None]

\* the fields of the first result taken whatever the status
parse_any_status(status, result) ==
    IF result = None THEN NullFields(status)
    ELSE LET r == Val(result) IN
         [status |-> status, place_id |-> r.place_id,
          formatted_address |-> r.formatted_address,
          location_type |-> r.location_type, partial_match |-> r.partial_match,
          lat |-> r.lat, lng |-> r.lng,
          confidence |-> compute_confidence(r.location_type, r.partial_match)]

\* result: None, or the first entry of the provider's result list
parse_google_result(status, result) ==
    IF status # "OK" \/ result = None THEN NullFields(status)
    ELSE LET r == Val(result) IN
         [status |-> status, place_id |-> r.place_id,
          formatted_address |-> r.formatted_address,
          location_type |-> r.location_type, partial_match |-> r.partial_match,
          lat |-> r.lat, lng |-> r.lng,
          confidence |-> compute_confidence(r.location_type, r.partial_match)]

\* the returned structure: the parsed fields plus from_cache and query_hash
Returned(fields, from_cache, q_hash) ==
    [status |-> fields.status, place_id |-> fields.place_id,
     formatted_address |-> fields.formatted_address,
     location_type |-> fields.location_type, partial_match |-> fields.partial_match,
     lat |-> fields.lat, lng |-> fields.lng, confidence |-> fields.confidence,
     from_cache |-> from_cache, query_hash |-> q_hash]

HttpStatus(code) == "HTTP_" \o ToString(code)

\* What one network attempt can end in (lines 332-370): an HTTPError, another
\* exception inside the try block ("transport": URLError, timeout; "malformed":
\* a body json.loads rejects), a JSON value that is no object ("notobject"), or
\* a JSON object with a status and a result list.
HttpError(code) == [kind |-> "http", code |-> code, status |-> "", results |-> <<>>]
Fault(kind) == [kind |-> kind, code |-> 0, status |-> "", results |-> <<>>]
Payload(status, results) == [kind |-> "payload", code |-> 200, status |-> status, results |-> results]

Responses ==
    {HttpError(c) : c \in env.codes}
      \cup {Fault(k) : k \in env.faults}
      \cup {Payload(p[1], p[2]) : p \in env.payloads}

\* what the call remembers of its latest attempt
Outcome(resp) ==
    [kind |-> resp.kind, code |-> resp.code, status |-> resp.status,
     results |-> resp.results]
NoOutcome == [kind |-> "none", code |-> 0, status |-> "", results |-> <<>>]

\* Entries of the provider's result list.
Rooftop ==
    [place_id |-> Some("place_1"), formatted_address |-> Some("addr_1"),
     location_type |-> Some("ROOFTOP"), partial_match |-> None,
     lat |-> Some(1), lng |-> Some(1)]
Approximate ==
    [place_id |-> Some("place_2"), formatted_address |-> Some("addr_2"),
     location_type |-> Some("APPROXIMATE"), partial_match |-> Some(TRUE),
     lat |-> Some(1), lng |-> Some(2)]
NoGeometry ==
    [place_id |-> Some("place_3"), formatted_address |-> None,
     location_type |-> None, partial_match |-> None, lat |-> None, lng |-> None]

\* RateLimiter ----------------------------------------------------------------
\* limiter.since is time.time() - _last_call once wait() has stamped _last_call;
\* before the first stamp _last_call is 0.0 and the elapsed time is the epoch
\* time, larger than any interval.
NewLimiter(max_qps) == [max_qps |-> max_qps, stamped |-> FALSE, since |-> 0]

\* 1.0 / max_qps, in ticks
min_interval(l) == 2 \div l.max_qps

\* a limiter that never sleeps
wait_never_sleeps(l) == 0

\* how long wait() sleeps
wait_sleep(l) ==
    IF l.max_qps <= 0 THEN 0
    ELSE IF l.stamped /\ l.since < min_interval(l) THEN min_interval(l) - l.since
    ELSE 0

\* the limiter when wait() returns
wait_done(l) ==
    IF l.max_qps <= 0 THEN l ELSE [l EXCEPT !.stamped = TRUE, !.since = 0]

\* the limiter after `t` more ticks have passed
\* (an elapsed time of min_interval or more is kept as min_interval: wait()
\* only compares it with min_interval)
Later(l, t) == IF l.stamped THEN [l EXCEPT !.since = Min(@ + t, min_interval(l))] ELSE l

\* geocode_address -----------------------------------------------------------
NoCall ==
    [query |-> <<>>, q_hash |-> <<>>, use_cache |-> FALSE, attempt |-> 0, backoff |-> 0,
     waits |-> <<>>, requests |-> 0, limiter_waits |-> 0, only503 |-> TRUE,
     last |-> NoOutcome, hit |-> FALSE, known |-> FALSE]

NoResult == Returned(NullFields(""), FALSE, <<>>)

EmptyMap == [k \in {} |-> None]

CacheEntry(q_hash, query, parsed, now) ==
    [geocode_query_hash |-> q_hash, query |-> query, place_id |-> parsed.place_id,
     lat |-> parsed.lat, lng |-> parsed.lng,
     formatted_address |-> parsed.formatted_address,
     location_type |-> parsed.location_type, partial_match |-> parsed.partial_match,
     cached_at |-> now]

\* update_one({geocode_query_hash: h}, {$set: entry}, upsert=True)
CacheUpsert(c, h, entry) ==
    [k \in DOMAIN c \cup {h} |-> IF k = h THEN entry ELSE c[k]]

\* a lookup that never finds an entry
CacheNeverHit(c) == FALSE

\* lines 302-304: cache_collection is not None and find_one finds an entry
CacheHit(c) == c.use_cache /\ c.q_hash \in DOMAIN cache

FromCache(cached, q_hash) ==
    [status |-> "OK", place_id |-> cached.place_id,
     formatted_address |-> cached.formatted_address,
     location_type |-> cached.location_type, partial_match |-> cached.partial_match,
     lat |-> cached.lat, lng |-> cached.lng,
     confidence |-> compute_confidence(cached.location_type, cached.partial_match),
     from_cache |-> TRUE, query_hash |-> q_hash]

\* a call that is handed the cache collection whatever the run's mode
EnterGeocodeCached(query, use_cache) ==
    LET h == geocode_query_hash(query) IN
    [NoCall EXCEPT !.query = query, !.q_hash = h, !.use_cache = TRUE,
                   !.backoff = InitialBackoff,
                   !.known = h \in DOMAIN firstLookup]

\* lines 294-300: entry into geocode_address(query, api_key, limiter, cache_collection)
EnterGeocode(query, use_cache) ==
    LET h == geocode_query_hash(query) IN
    [NoCall EXCEPT !.query = query, !.q_hash = h, !.use_cache = use_cache,
                   !.backoff = InitialBackoff,
                   !.known = use_cache /\ h \in DOMAIN firstLookup]

\* lines 302-316: the cache lookup; a hit returns without touching the limiter.
\* find_one is called outside any try: when the store raises, the exception
\* leaves geocode_address and, main having no handler around the call, the run.
GeocodeLookup ==
    /\ pc = "lookup"
    /\ \E raises \in (IF call.use_cache THEN env.cache_raises ELSE {FALSE}) :
         IF raises
         THEN /\ pc' = "crashed"
              /\ UNCHANGED <<geocode_result, call>>
         ELSE IF CacheHit(call)
         THEN /\ geocode_result' = FromCache(cache[call.q_hash], call.q_hash)
              /\ call' = [call EXCEPT !.hit = TRUE]
              /\ pc' = "returned"
         ELSE /\ pc' = "attempt"
              /\ UNCHANGED <<geocode_result, call>>
    /\ UNCHANGED <<env, runVars, limiter, lastGap, firstLookup, cache, units,
                   rejects_file, clock, calls, runs>>

\* a retry rule that lets a body json.loads rejects end the call
RetryableButMalformed(resp, attempt) ==
    /\ attempt < max_attempts - 1
    /\ \/ resp.kind = "http" /\ resp.code \in RetryableCodes
       \/ resp.kind = "transport"
       \/ resp.kind = "payload" /\ resp.status = "OVER_QUERY_LIMIT"

\* Is this failed attempt retried (lines 336, 353, 371)?
Retryable(resp, attempt) ==
    /\ attempt < max_attempts - 1
    /\ \/ resp.kind = "http" /\ resp.code \in RetryableCodes
       \/ resp.kind \in {"transport", "malformed"}
       \/ resp.kind = "payload" /\ resp.status = "OVER_QUERY_LIMIT"

\* a client that reports every failure as REQUEST_FAILED
FinalResultGeneric(resp, q_hash) ==
    IF resp.kind \in {"http", "transport", "malformed"}
    THEN Returned(NullFields("REQUEST_FAILED"), FALSE, q_hash)
    ELSE LET first == IF resp.results # <<>> THEN Some(resp.results[1]) ELSE None
         IN  Returned(parse_google_result(resp.status, first), FALSE, q_hash)

\* The structure a final attempt returns (lines 340-351, 357-368, 376-380).
FinalResult(resp, q_hash) ==
    IF resp.kind = "http" THEN Returned(NullFields(HttpStatus(resp.code)), FALSE, q_hash)
    ELSE IF resp.kind \in {"transport", "malformed"}
    THEN Returned(NullFields("REQUEST_FAILED"), FALSE, q_hash)
    ELSE LET first == IF resp.results # <<>> THEN Some(resp.results[1]) ELSE None
         IN  Returned(parse_google_result(resp.status, first), FALSE, q_hash)

\* a client that caches whatever the provider answered
CacheWriteAnyStatus(resp, c) == resp.kind = "payload" /\ c.use_cache

\* line 382: is the parsed result written to the cache?
CacheWrite(resp, c) == resp.kind = "payload" /\ resp.status = "OK" /\ c.use_cache

\* observer: the time since the previous request when this one goes out
GapAfter(l, slept) ==
    IF l.max_qps > 0 /\ l.stamped THEN Some(Min(l.since + slept, min_interval(l))) ELSE None

\* lines 330-401: one iteration of the retry loop: limiter.wait(), the request,
\* and then either the backoff sleep and `continue`, or a return.
Attempt ==
    /\ pc = "attempt"
    /\ call.attempt < max_attempts
    /\ \E resp \in Responses, latency \in 0..MaxLatency :
         LET slept == wait_sleep(limiter)
             stamped == wait_done(limiter)
             sent == [call EXCEPT !.requests = @ + 1, !.limiter_waits = @ + 1,
                                  !.last = Outcome(resp)]
         IN
         /\ lastGap' = IF limiter.max_qps > 0 THEN GapAfter(limiter, slept) ELSE lastGap
         /\ \/ /\ Retryable(resp, call.attempt)
               /\ call' = [sent EXCEPT !.attempt = @ + 1, !.backoff = NextBackoff(@),
                                        !.waits = Append(@, call.backoff),
                                        !.only503 = @ /\ resp = HttpError(503)]
               /\ limiter' = Later(stamped, latency + call.backoff)
               /\ pc' = "attempt"
               /\ UNCHANGED <<geocode_result, cache, clock, firstLookup>>
            \/ /\ ~Retryable(resp, call.attempt)
               /\ resp.kind = "notobject"
               /\ call' = sent
               /\ limiter' = Later(stamped, latency)
               /\ pc' = "crashed"
               /\ UNCHANGED <<geocode_result, cache, clock, firstLookup>>
            \/ /\ ~Retryable(resp, call.attempt)
               /\ resp.kind # "notobject"
               /\ call' = sent
               /\ limiter' = Later(stamped, latency)
               /\ LET parsed == FinalResult(resp, call.q_hash) IN
                  IF CacheWrite(resp, call)
                  THEN \E raises \in env.cache_raises :
                         IF raises
                         THEN \* lines 383-399: update_one raises, outside any try
                              /\ pc' = "crashed"
                              /\ UNCHANGED <<geocode_result, cache, clock, firstLookup>>
                         ELSE /\ geocode_result' = parsed
                              /\ clock' = clock + 1
                              /\ cache' = CacheUpsert(cache, call.q_hash,
                                            CacheEntry(call.q_hash, call.query, parsed, clock'))
                              /\ firstLookup' =
                                    IF call.q_hash \in DOMAIN firstLookup THEN firstLookup
                                    ELSE CacheUpsert(firstLookup, call.q_hash, parsed)
                              /\ pc' = "returned"
                  ELSE /\ geocode_result' = parsed
                       /\ pc' = "returned"
                       /\ UNCHANGED <<cache, clock, firstLookup>>
    /\ UNCHANGED <<env, runVars, units, rejects_file, calls, runs>>

\* ------------------------------------------------------------ Row Normalizer

SOURCE_FILE == "farmers_market.csv"
T_MA_lower == <<"m", "a">>
T_boston == <<"b", "o", "s", "t", "o", "n">>
T_Boston == <<"B", "o", "s", "t", "o", "n">>
T_csa == <<"c", "s", "a">>
T_pick_dash_up == <<"p", "i", "c", "k", "-", "u", "p">>
T_pick_up == <<"p", "i", "c", "k", " ", "u", "p">>
T_mobile_market == <<"m", "o", "b", "i", "l", "e", " ", "m", "a", "r", "k", "e", "t">>
T_farmstand == <<"f", "a", "r", "m", "s", "t", "a", "n", "d">>

\* A row is a record of its columns, each column named by its header as
\* get_field compares it: lower-cased, everything but a-z and 0-9 removed.
\* get_field(row, *candidates): the value of the first candidate the row has
\* a column for, None when it has none; the candidates in the same form.
RECURSIVE get_field(_, _)
get_field(row, candidates) ==
    IF candidates = <<>> THEN None
    ELSE IF Head(candidates) \in DOMAIN row THEN Some(row[Head(candidates)])
    ELSE get_field(row, Tail(candidates))

derive_subtype(name, description) ==
    LET n == LowerText(name)
        d == IF description = None THEN <<>> ELSE LowerText(Val(description))
    IN  IF \/ ContainsWord(n, T_csa) \/ ContainsWord(d, T_csa)
           \/ Contains(n, T_pick_dash_up) \/ Contains(n, T_pick_up)
           \/ Contains(d, T_pick_dash_up) \/ Contains(d, T_pick_up)
        THEN <<"c", "s", "a", "_", "p", "i", "c", "k", "u", "p">>
        ELSE IF Contains(n, T_mobile_market) THEN <<"m", "o", "b", "i", "l", "e", "_", "m", "a", "r", "k", "e", "t">>
        ELSE IF Contains(n, T_farmstand) \/ Contains(d, T_farmstand) THEN <<"f", "a", "r", "m", "s", "t", "a", "n", "d">>
        ELSE <<"f", "a", "r", "m", "e", "r", "s", "_", "m", "a", "r", "k", "e", "t">>

normalize_website(value) ==
    LET raw == clean_text(value) IN
    IF raw = None THEN None
    ELSE IF OccursAt(LowerText(Val(raw)), <<"w", "w", "w", ".">>, 1)
         THEN Some(<<"h", "t", "t", "p", "s", ":", "/", "/">> \o Val(raw))
         ELSE raw

normalize_phone(value) ==
    LET raw == clean_text(value) IN
    IF raw = None THEN None
    ELSE LET digits == DigitsOf(Val(raw)) IN
         IF Len(digits) = 10 THEN Some(<<"+", "1">> \o digits)
         ELSE IF Len(digits) = 11 /\ Head(digits) = "1" THEN Some(<<"+">> \o digits)
         ELSE IF digits # <<>>
              THEN Some(<<"d", "i", "g", "i", "t", "s", ":">> \o digits
                          \o <<";", "r", "a", "w", ":">> \o Val(raw))
              ELSE raw

Or(a, b) == IF a # None /\ a # Some(<<>>) THEN a ELSE b

\* normalize_row: [ok |-> FALSE, error |-> the ValidationError's message], or
\* [ok |-> TRUE, doc |-> the document]
normalize_row(row) ==
    LET name == clean_text(get_field(row, <<"locationname", "locationname", "name">>))
        line1 == clean_text(get_field(row, <<"address", "streetaddress", "locationaddress">>))
        city_raw == clean_text(get_field(row, <<"city", "town">>))
        city_norm == title_case_city(city_raw)
        zip_code == normalize_zip(get_field(row, <<"zip", "zip", "zipcode", "postalcode">>))
        description == clean_text(get_field(row, <<"description">>))
        website == normalize_website(get_field(row, <<"website", "url", "url">>))
        phone == normalize_phone(get_field(row, <<"phone", "phonenumber", "telephone">>))
        state == T_MA
        city_for_key == Or(city_norm, Or(city_raw, Some(T_boston)))
        zip_for_key == Or(zip_code, Some(<<>>))
        dedupe_hash == sha256_hash(<<Some(SOURCE_NAME), name, line1, city_for_key,
                                     Some(state), zip_for_key>>)
        source_row_hash == sha256_hash(<<Some(SOURCE_NAME), name, line1,
                                         Or(city_raw, Some(<<>>)), Some(state), zip_for_key>>)
    IN  IF name = None THEN [ok |-> FALSE, error |-> "missing required field: name"]
        ELSE IF line1 = None
        THEN [ok |-> FALSE, error |-> "missing required field: address.line1"]
        ELSE [ok |-> TRUE, doc |->
               [dedupe_key |-> LowerText(SOURCE_NAME) \o <<":">> \o dedupe_hash,
                name |-> Val(name),
                datatype |-> "farmers market",
                place_type |-> "farmers_market",
                subtype |-> derive_subtype(Val(name), description),
                description |-> description,
                address |-> [line1 |-> Val(line1), city_raw |-> city_raw,
                             city_norm |-> city_norm, state |-> state,
                             zip |-> zip_code, formatted_address |-> None],
                location |-> None,
                geocoding |-> [provider |-> "google", status |-> "NOT_REQUESTED",
                               place_id |-> None, location_type |-> None,
                               partial_match |-> None, confidence |-> None],
                contact |-> [website |-> website, phone |-> phone],
                neighborhood_id |-> None,
                neighborhood_name |-> None,
                sources |-> <<[source_name |-> SOURCE_NAME, source_file |-> SOURCE_FILE,
                               source_row_hash |-> source_row_hash,
                               needs_geocoding |-> TRUE, raw |-> row]>>]]

build_geocode_query(d) ==
    LET line1 == d.address.line1
        city == Val(Or(d.address.city_norm, Or(d.address.city_raw, Some(T_Boston))))
        zip_code == d.address.zip
    IN  IF zip_code # None /\ zip_code # Some(<<>>)
        THEN line1 \o <<",", " ">> \o city \o <<",", " ", "M", "A", " ">> \o Val(zip_code)
                   \o <<",", " ", "U", "S", "A">>
        ELSE line1 \o <<",", " ">> \o city \o <<",", " ", "M", "A", ",", " ", "U", "S", "A">>

\* ------------------------------------- the normalizers of the other sources

GROCERY_SOURCE_NAME == <<"B", "o", "s", "t", "o", "n", "G", "r", "o", "c", "e", "r", "y", "S", "t", "o", "r", "e", "s">>
GROCERY_SOURCE_FILE == "grocery_store_locations_clean.csv"
RESTAURANTS_SOURCE_NAME == <<"B", "o", "s", "t", "o", "n", "R", "e", "s", "t", "a", "u", "r", "a", "n", "t", "s">>
RESTAURANTS_SOURCE_FILE == "restaurants_cleaned.csv"
PANTRIES_SOURCE_NAME == <<"S", "u", "f", "f", "o", "l", "k", "F", "o", "o", "d", "P", "a", "n", "t", "r", "i", "e", "s">>
PANTRIES_SOURCE_FILE == "suffolk_active_food_pantries.csv"

UpperText(s) == [i \in 1..Len(s) |-> Upper(s[i])]

\* re.sub(r"[^a-z0-9]+", "", SOURCE_NAME.lower())
RECURSIVE AlnumOnly(_)
AlnumOnly(s) ==
    IF s = <<>> THEN <<>>
    ELSE (IF IsLower(Head(s)) \/ Head(s) \in Digits THEN <<Head(s)>> ELSE <<>>)
            \o AlnumOnly(Tail(s))

source_prefix(source_name) == AlnumOnly(LowerText(source_name))

\* str.rstrip("/")
RECURSIVE RStripSlash(_)
RStripSlash(s) ==
    IF s # <<>> /\ s[Len(s)] = "/" THEN RStripSlash(SubSeq(s, 1, Len(s) - 1)) ELSE s

\* <<city_raw, city_norm>>
normalize_city(value) ==
    LET city_raw == clean_text(value) IN
    IF city_raw = None THEN <<None, None>>
    ELSE LET cleaned == collapse_spaces(Strip(RStripSlash(Val(city_raw)))) IN
         IF cleaned = <<>> THEN <<None, None>>
         ELSE <<Some(cleaned), title_case_city(Some(cleaned))>>

DigitVal(c) == CHOOSE n \in 0..9 : ToString(n) = c

RECURSIVE NatOf(_)
NatOf(digits) ==
    IF digits = <<>> THEN 0
    ELSE 10 * NatOf(SubSeq(digits, 1, Len(digits) - 1)) + DigitVal(digits[Len(digits)])

AllDigits(s) == s # <<>> /\ \A i \in 1..Len(s) : s[i] \in Digits

\* parse_float: float(text), None when it raises.  The coordinates of the
\* input files are whole numbers with an optional sign, or no numbers at all.
parse_float(value) ==
    LET text == clean_text(value) IN
    IF text = None THEN None
    ELSE LET t == Val(text) IN
         IF AllDigits(t) THEN Some(NatOf(t))
         ELSE IF Head(t) = "-" /\ AllDigits(Tail(t)) THEN Some(0 - NatOf(Tail(t)))
         ELSE IF Head(t) = "+" /\ AllDigits(Tail(t)) THEN Some(NatOf(Tail(t)))
         ELSE None

\* text.replace("&", " and ")
RECURSIVE ReplaceAmp(_)
ReplaceAmp(s) ==
    IF s = <<>> THEN <<>>
    ELSE (IF Head(s) = "&" THEN <<" ", "a", "n", "d", " ">> ELSE <<Head(s)>>) \o ReplaceAmp(Tail(s))

\* re.sub(r"[^a-z0-9]+", "_", text): every run of other characters becomes one "_"
RECURSIVE Underscored(_, _)
Underscored(s, inRun) ==
    IF s = <<>> THEN <<>>
    ELSE IF IsLower(Head(s)) \/ Head(s) \in Digits
         THEN <<Head(s)>> \o Underscored(Tail(s), FALSE)
         ELSE (IF inRun THEN <<>> ELSE <<"_">>) \o Underscored(Tail(s), TRUE)

\* str.strip("_")
RECURSIVE StripUnderscores(_)
StripUnderscores(s) ==
    IF s # <<>> /\ Head(s) = "_" THEN StripUnderscores(Tail(s))
    ELSE IF s # <<>> /\ s[Len(s)] = "_" THEN StripUnderscores(SubSeq(s, 1, Len(s) - 1))
    ELSE s

\* derive_subtype of the grocery, restaurant and pantry scripts, which differ
\* in the default only
derive_subtype_or(text, default) ==
    LET t == IF text = None THEN <<>> ELSE LowerText(Strip(Val(text))) IN
    IF t = <<>> THEN default
    ELSE LET subtype == StripUnderscores(Underscored(ReplaceAmp(t), FALSE)) IN
         IF subtype = <<>> THEN default ELSE subtype

\* the phone of the restaurant script: r"\d+\.0+" loses its fraction first
IsFloatLooking(s) ==
    \E d \in 2..Len(s) - 1 :
        /\ s[d] = "."
        /\ AllDigits(SubSeq(s, 1, d - 1))
        /\ \A i \in d + 1..Len(s) : s[i] = "0"

BeforeDot(s) == SubSeq(s, 1, (CHOOSE d \in 1..Len(s) : s[d] = "." /\ \A i \in 1..d - 1 : s[i] # ".") - 1)

restaurants_normalize_phone(value) ==
    LET raw0 == clean_text(value) IN
    IF raw0 = None THEN None
    ELSE LET raw == IF IsFloatLooking(Val(raw0)) THEN BeforeDot(Val(raw0)) ELSE Val(raw0)
             digits == DigitsOf(raw)
         IN  IF digits = <<>> \/ \A i \in 1..Len(digits) : digits[i] = "0" THEN None
             ELSE IF Len(digits) = 10 THEN Some(<<"+", "1">> \o digits)
             ELSE IF Len(digits) = 11 /\ Head(digits) = "1" THEN Some(<<"+">> \o digits)
             ELSE Some(<<"d", "i", "g", "i", "t", "s", ":">> \o digits \o <<";", "r", "a", "w", ":">> \o raw)

resolve_name(row) ==
    Or(clean_text(get_field(row, <<"dbaname", "dbaname">>)),
       clean_text(get_field(row, <<"businessname", "businessname", "name">>)))

\* normalize_row of ingest_grocery_stores.py
grocery_normalize_row(row) ==
    LET name == clean_text(get_field(row, <<"storename", "name">>))
        line1_raw == clean_text(get_field(row, <<"address", "streetaddress", "street">>))
        line1 == IF line1_raw = None THEN None ELSE Some(collapse_spaces(Val(line1_raw)))
        city == normalize_city(get_field(row, <<"city", "town">>))
        city_raw == city[1]
        city_norm == city[2]
        state == UpperText(Val(Or(clean_text(get_field(row, <<"state">>)), Some(T_MA))))
        zip_code == normalize_zip(get_field(row, <<"zip", "zip", "zipcode", "postalcode">>))
        county == clean_text(get_field(row, <<"county">>))
        store_type == clean_text(get_field(row, <<"storetype", "type">>))
        lat == parse_float(get_field(row, <<"latitude", "lat", "latitude", "lat">>))
        lng == parse_float(get_field(row, <<"longitude", "lng", "long", "lon", "longitude", "lng">>))
        has_coords == lat # None /\ lng # None
        city_for_key == Or(city_norm, Or(city_raw, Some(T_boston)))
        zip_for_key == Or(zip_code, Some(<<>>))
        dedupe_hash == sha256_hash(<<Some(GROCERY_SOURCE_NAME), name, line1, city_for_key,
                                     Some(state), zip_for_key>>)
        source_row_hash == sha256_hash(<<Some(GROCERY_SOURCE_NAME), name, line1,
                                         Or(city_raw, Some(<<>>)), Some(state), zip_for_key>>)
    IN  IF name = None THEN [ok |-> FALSE, error |-> "missing required field: name"]
        ELSE IF line1_raw = None
        THEN [ok |-> FALSE, error |-> "missing required field: address.line1"]
        ELSE [ok |-> TRUE, doc |->
               [dedupe_key |-> source_prefix(GROCERY_SOURCE_NAME) \o <<":">> \o dedupe_hash,
                name |-> Val(name),
                datatype |-> "grocery store",
                place_type |-> "grocery_store",
                subtype |-> derive_subtype_or(store_type, <<"g", "r", "o", "c", "e", "r", "y", "_", "s", "t", "o", "r", "e">>),
                description |-> Or(store_type, county),
                address |-> [line1 |-> Val(line1), city_raw |-> city_raw,
                             city_norm |-> city_norm, state |-> state,
                             zip |-> zip_code, formatted_address |-> None],
                location |-> IF has_coords THEN [type |-> "Point", coordinates |-> <<lng, lat>>]
                            ELSE None,
                geocoding |-> IF has_coords
                             THEN [provider |-> "source_csv", status |-> "SOURCE_COORDINATES",
                                   place_id |-> None, location_type |-> None,
                                   partial_match |-> None, confidence |-> Some("high")]
                             ELSE [provider |-> "google", status |-> "NOT_REQUESTED",
                                   place_id |-> None, location_type |-> None,
                                   partial_match |-> None, confidence |-> None],
                contact |-> [website |-> None, phone |-> None],
                neighborhood_id |-> None,
                neighborhood_name |-> None,
                sources |-> <<[source_name |-> GROCERY_SOURCE_NAME,
                               source_file |-> GROCERY_SOURCE_FILE,
                               source_row_hash |-> source_row_hash,
                               needs_geocoding |-> ~has_coords, raw |-> row]>>]]

\* the restaurant script with the normalizer of the grocery script
restaurants_normalize_row_as_grocery(row) == grocery_normalize_row(row)

\* normalize_row of ingest_restaurants.py
restaurants_normalize_row(row) ==
    LET name == resolve_name(row)
        line1_raw == clean_text(get_field(row, <<"address", "street", "streetaddress">>))
        line1 == IF line1_raw = None THEN None ELSE Some(collapse_spaces(Val(line1_raw)))
        city == normalize_city(get_field(row, <<"city", "town">>))
        city_raw == city[1]
        city_norm == city[2]
        state == UpperText(Val(Or(clean_text(get_field(row, <<"state">>)), Some(T_MA))))
        zip_code == normalize_zip(get_field(row, <<"zip", "postalcode", "zipcode">>))
        description == clean_text(get_field(row, <<"descript", "description">>))
        phone == restaurants_normalize_phone(get_field(row, <<"dayphncleaned", "phone", "phonenumber">>))
        lat == parse_float(get_field(row, <<"latitude", "lat">>))
        lng == parse_float(get_field(row, <<"longitude", "lng", "lon", "long">>))
        has_coords == lat # None /\ lng # None
        city_for_key == Or(city_norm, Or(city_raw, Some(T_boston)))
        zip_for_key == Or(zip_code, Some(<<>>))
        dedupe_hash == sha256_hash(<<Some(RESTAURANTS_SOURCE_NAME), name, line1, city_for_key,
                                     Some(state), zip_for_key>>)
        source_row_hash == sha256_hash(<<Some(RESTAURANTS_SOURCE_NAME), name, line1,
                                         Or(city_raw, Some(<<>>)), Some(state), zip_for_key>>)
    IN  IF name = None THEN [ok |-> FALSE, error |-> "missing required field: name"]
        ELSE IF line1_raw = None
        THEN [ok |-> FALSE, error |-> "missing required field: address.line1"]
        ELSE [ok |-> TRUE, doc |->
               [dedupe_key |-> source_prefix(RESTAURANTS_SOURCE_NAME) \o <<":">> \o dedupe_hash,
                name |-> Val(name),
                datatype |-> "restaurant",
                place_type |-> "restaurant",
                subtype |-> derive_subtype_or(description, <<"r", "e", "s", "t", "a", "u", "r", "a", "n", "t">>),
                description |-> description,
                address |-> [line1 |-> Val(line1), city_raw |-> city_raw,
                             city_norm |-> city_norm, state |-> state,
                             zip |-> zip_code, formatted_address |-> None],
                location |-> IF has_coords THEN [type |-> "Point", coordinates |-> <<lng, lat>>]
                            ELSE None,
                geocoding |-> [provider |-> "source_csv",
                              status |-> IF has_coords THEN "SOURCE_COORDINATES"
                                         ELSE "MISSING_SOURCE_COORDINATES",
                              place_id |-> None, location_type |-> None,
                              partial_match |-> None,
                              confidence |-> IF has_coords THEN Some("high") ELSE None],
                contact |-> [website |-> None, phone |-> phone],
                neighborhood_id |-> None,
                neighborhood_name |-> None,
                sources |-> <<[source_name |-> RESTAURANTS_SOURCE_NAME,
                               source_file |-> RESTAURANTS_SOURCE_FILE,
                               source_row_hash |-> source_row_hash,
                               needs_geocoding |-> ~has_coords, raw |-> row]>>]]

\* normalize_row of ingest_food_pantries.py, which reads no coordinates
pantries_normalize_row(row) ==
    LET name == clean_text(get_field(row, <<"name">>))
        line1_raw == clean_text(get_field(row, <<"street", "address", "streetaddress">>))
        line1 == IF line1_raw = None THEN None ELSE Some(collapse_spaces(Val(line1_raw)))
        city == normalize_city(get_field(row, <<"city", "town">>))
        city_raw == city[1]
        city_norm == city[2]
        state == UpperText(Val(Or(clean_text(get_field(row, <<"state">>)), Some(T_MA))))
        zip_code == normalize_zip(get_field(row, <<"zip", "zip", "zipcode", "postalcode">>))
        county == clean_text(get_field(row, <<"county">>))
        status == clean_text(get_field(row, <<"status">>))
        type_desc == clean_text(get_field(row, <<"typedesc", "typedesc", "type">>))
        city_for_key == Or(city_norm, Or(city_raw, Some(T_boston)))
        zip_for_key == Or(zip_code, Some(<<>>))
        dedupe_hash == sha256_hash(<<Some(PANTRIES_SOURCE_NAME), name, line1, city_for_key,
                                     Some(state), zip_for_key>>)
        source_row_hash == sha256_hash(<<Some(PANTRIES_SOURCE_NAME), name, line1,
                                         Or(city_raw, Some(<<>>)), Some(state), zip_for_key>>)
    IN  IF name = None THEN [ok |-> FALSE, error |-> "missing required field: name"]
        ELSE IF line1_raw = None
        THEN [ok |-> FALSE, error |-> "missing required field: address.line1"]
        ELSE [ok |-> TRUE, doc |->
               [dedupe_key |-> source_prefix(PANTRIES_SOURCE_NAME) \o <<":">> \o dedupe_hash,
                name |-> Val(name),
                datatype |-> "food pantry",
                place_type |-> "food_pantry",
                subtype |-> derive_subtype_or(type_desc, <<"f", "o", "o", "d", "_", "p", "a", "n", "t", "r", "y">>),
                description |-> Or(type_desc, Or(status, county)),
                address |-> [line1 |-> Val(line1), city_raw |-> city_raw,
                             city_norm |-> city_norm, state |-> state,
                             zip |-> zip_code, formatted_address |-> None],
                location |-> None,
                geocoding |-> [provider |-> "google", status |-> "NOT_REQUESTED",
                               place_id |-> None, location_type |-> None,
                               partial_match |-> None, confidence |-> None],
                contact |-> [website |-> None, phone |-> None],
                neighborhood_id |-> None,
                neighborhood_name |-> None,
                sources |-> <<[source_name |-> PANTRIES_SOURCE_NAME,
                               source_file |-> PANTRIES_SOURCE_FILE,
                               source_row_hash |-> source_row_hash,
                               needs_geocoding |-> TRUE, raw |-> row]>>]]

\* ------------------------------------------------- Neighborhood Assignment

\* Coordinates are integers: the float tolerance eps = 1e-12 of the source is
\* then exact (|v| > eps iff v # 0).
Abs(v) == IF v < 0 THEN -v ELSE v

point_on_segment(lng, lat, a, b) ==
    LET ax == a[1]  ay == a[2]  bx == b[1]  by == b[2]
        squared_len == (bx - ax) * (bx - ax) + (by - ay) * (by - ay)
        cross == (lng - ax) * (by - ay) - (lat - ay) * (bx - ax)
        dot == (lng - ax) * (bx - ax) + (lat - ay) * (by - ay)
    IN  IF squared_len <= 0
        THEN (lng - ax) * (lng - ax) + (lat - ay) * (lat - ay) <= 0
        ELSE IF Abs(cross) > 0 THEN FALSE
        ELSE IF dot < 0 THEN FALSE
        ELSE IF dot - squared_len > 0 THEN FALSE
        ELSE TRUE

\* ((y1 > lat) != (y2 > lat)) and lng < (x2 - x1) * (lat - y1) / (y2 - y1) + x1,
\* the division cleared by multiplying with y2 - y1
Intersects(lng, lat, a, b) ==
    LET x1 == a[1]  y1 == a[2]  x2 == b[1]  y2 == b[2] IN
    /\ (y1 > lat) # (y2 > lat)
    /\ IF y2 - y1 > 0
       THEN (lng - x1) * (y2 - y1) < (x2 - x1) * (lat - y1)
       ELSE (lng - x1) * (y2 - y1) > (x2 - x1) * (lat - y1)

\* the loop of _point_in_ring from edge i on, `inside` being the parity so far
RECURSIVE RingLoop(_, _, _, _, _)
RingLoop(lng, lat, ring, i, inside) ==
    IF i > Len(ring) THEN inside
    ELSE LET a == ring[i]
             b == ring[(i % Len(ring)) + 1]
         IN  IF point_on_segment(lng, lat, a, b) THEN TRUE
             ELSE RingLoop(lng, lat, ring, i + 1,
                           IF Intersects(lng, lat, a, b) THEN ~inside ELSE inside)

point_in_ring(lng, lat, ring) ==
    IF Len(ring) < 4 THEN FALSE ELSE RingLoop(lng, lat, ring, 1, FALSE)

\* a polygon taken for its outer ring alone
point_in_outer_ring(lng, lat, polygon_coords) ==
    IF polygon_coords = <<>> THEN FALSE
    ELSE point_in_ring(lng, lat, polygon_coords[1])

point_in_polygon(lng, lat, polygon_coords) ==
    IF polygon_coords = <<>> THEN FALSE
    ELSE IF ~point_in_ring(lng, lat, polygon_coords[1]) THEN FALSE
    ELSE \A h \in 2..Len(polygon_coords) : ~point_in_ring(lng, lat, polygon_coords[h])

geometry_contains_point(geometry, lng, lat) ==
    IF geometry.coordinates = <<>> THEN FALSE
    ELSE IF geometry.type = "Polygon"
         THEN point_in_polygon(lng, lat, geometry.coordinates)
    ELSE IF geometry.type = "MultiPolygon"
         THEN \E p \in 1..Len(geometry.coordinates) :
                  point_in_polygon(lng, lat, geometry.coordinates[p])
    ELSE FALSE

IsKeyChar(c) == IsLower(c) \/ c \in Digits

RECURSIVE SkipOther(_)
SkipOther(s) == IF s # <<>> /\ ~IsKeyChar(Head(s)) THEN SkipOther(Tail(s)) ELSE s

\* re.sub(r"[^a-z0-9]+", " ", text): every run of other characters becomes one space
RECURSIVE SquashOther(_)
SquashOther(s) ==
    IF s = <<>> THEN <<>>
    ELSE IF ~IsKeyChar(Head(s))
         THEN <<" ">> \o SquashOther(SkipOther(s))
         ELSE <<Head(s)>> \o SquashOther(Tail(s))

canonicalize_name(value) == Strip(SquashOther(LowerText(value)))

\* (row.get(column) or "").strip()
StrippedOrEmpty(value) == IF value = None THEN <<>> ELSE Strip(Val(value))

\* a dict kept as the list of its entries, in insertion order
MappingHas(mapping, key) == \E i \in 1..Len(mapping) : mapping[i].key = key

MappingGet(mapping, key) == mapping[CHOOSE i \in 1..Len(mapping) : mapping[i].key = key]

\* a loop that takes a name for seen only when it was seen letter for letter
RECURSIVE PopulationLoopByName(_, _)
PopulationLoopByName(rows, mapping) ==
    IF rows = <<>> THEN mapping
    ELSE LET name == StrippedOrEmpty(Head(rows))
         IN  IF name = <<>> \/ \E i \in 1..Len(mapping) : mapping[i].name = name
             THEN PopulationLoopByName(Tail(rows), mapping)
             ELSE PopulationLoopByName(Tail(rows),
                     Append(mapping, [key |-> canonicalize_name(name),
                                      id |-> Len(mapping) + 1, name |-> name]))

\* the loop of load_population_ids; next_id is Len(mapping) + 1
RECURSIVE PopulationLoop(_, _)
PopulationLoop(rows, mapping) ==
    IF rows = <<>> THEN mapping
    ELSE LET name == StrippedOrEmpty(Head(rows))
             key == canonicalize_name(name)
         IN  IF name = <<>> \/ MappingHas(mapping, key)
             THEN PopulationLoop(Tail(rows), mapping)
             ELSE PopulationLoop(Tail(rows),
                                 Append(mapping, [key |-> key, id |-> Len(mapping) + 1,
                                                  name |-> name]))

\* the file is None when it does not exist; a row is its Neighborhood value
load_population_ids(file) ==
    IF file = None THEN [ok |-> FALSE, error |-> "FileNotFoundError"]
    ELSE IF "Neighborhood" \notin Val(file).fieldnames
         THEN [ok |-> FALSE, error |-> "ValueError"]
    ELSE LET mapping == PopulationLoop(Val(file).rows, <<>>) IN
         IF mapping = <<>> THEN [ok |-> FALSE, error |-> "ValueError"]
         ELSE [ok |-> TRUE, mapping |-> mapping]

\* the loop of load_neighborhood_features: the resolved features, each with
\* the key it was seen under
RECURSIVE ResolveLoop(_, _)
ResolveLoop(features, population_id_map) ==
    IF features = <<>> THEN <<>>
    ELSE LET name == StrippedOrEmpty(Head(features).name)
             key == canonicalize_name(name)
             rest == ResolveLoop(Tail(features), population_id_map)
         IN  IF name = <<>> \/ ~MappingHas(population_id_map, key) THEN rest
             ELSE <<[key |-> key,
                     feature |-> [neighborhood_id |-> MappingGet(population_id_map, key).id,
                                  neighborhood_name |-> MappingGet(population_id_map, key).name,
                                  geometry |-> Head(features).geometry]]>> \o rest

FeaturesOf(entries) == [i \in 1..Len(entries) |-> entries[i].feature]

\* set(population_id_map.keys()) - seen_population_keys
MissingKeys(population_id_map, entries) ==
    {population_id_map[i].key : i \in 1..Len(population_id_map)}
       \ {entries[i].key : i \in 1..Len(entries)}

\* list.sort(key=neighborhood_id), which is stable; the ids are 1..n
RECURSIVE SortedFrom(_, _, _)
SortedFrom(resolved, id, n) ==
    IF id > n THEN <<>>
    ELSE SelectSeq(resolved, LAMBDA f : f.neighborhood_id = id)
            \o SortedFrom(resolved, id + 1, n)

\* the features returned in the order of the file
load_features_unsorted(file, population_id_map) ==
    IF file = None THEN [ok |-> FALSE, error |-> "FileNotFoundError"]
    ELSE IF Val(file).features = None THEN [ok |-> FALSE, error |-> "ValueError"]
    ELSE LET entries == ResolveLoop(Val(Val(file).features), population_id_map) IN
         IF MissingKeys(population_id_map, entries) # {}
         THEN [ok |-> FALSE, error |-> "ValueError"]
         ELSE [ok |-> TRUE, features |-> FeaturesOf(entries)]

\* the features returned though a reference neighborhood has none
load_features_lenient(file, population_id_map) ==
    IF file = None THEN [ok |-> FALSE, error |-> "FileNotFoundError"]
    ELSE IF Val(file).features = None THEN [ok |-> FALSE, error |-> "ValueError"]
    ELSE LET entries == ResolveLoop(Val(Val(file).features), population_id_map) IN
         [ok |-> TRUE,
          features |-> SortedFrom(FeaturesOf(entries), 1, Len(population_id_map))]

\* the file is None when it does not exist; its features are None when they
\* are no list
load_neighborhood_features(file, population_id_map) ==
    IF file = None THEN [ok |-> FALSE, error |-> "FileNotFoundError"]
    ELSE IF Val(file).features = None THEN [ok |-> FALSE, error |-> "ValueError"]
    ELSE LET entries == ResolveLoop(Val(Val(file).features), population_id_map) IN
         IF MissingKeys(population_id_map, entries) # {}
         THEN [ok |-> FALSE, error |-> "ValueError"]
         ELSE [ok |-> TRUE,
               features |-> SortedFrom(FeaturesOf(entries), 1, Len(population_id_map))]

\* NeighborhoodMapper.__init__
NeighborhoodMapper(population_csv, geojson) ==
    LET population_ids == load_population_ids(population_csv) IN
    IF ~population_ids.ok THEN population_ids
    ELSE load_neighborhood_features(geojson, population_ids.mapping)

\* mapper = NeighborhoodMapper() over the two files of the environment
Mapper == NeighborhoodMapper(env.population_csv, env.geojson)

\* mapper.features
Features == Mapper.features

\* the first feature, from i on, that contains the point; None when there is none
RECURSIVE FindFrom(_, _, _, _)
FindFrom(features, i, lng, lat) ==
    IF i > Len(features) THEN None
    ELSE IF geometry_contains_point(features[i].geometry, lng, lat)
         THEN Some(<<features[i].neighborhood_id, features[i].neighborhood_name>>)
         ELSE FindFrom(features, i + 1, lng, lat)

find_for_point(lng, lat) == FindFrom(Features, 1, lng, lat)

\* obj.get(first) or obj.get(second): an absent key, null and the number 0
\* are falsy
FlatValue(obj, first, second) ==
    LET v == IF first \in DOMAIN obj THEN obj[first] ELSE None IN
    IF v # None /\ v # Some(0) THEN v
    ELSE IF second \in DOMAIN obj THEN obj[second] ELSE None

\* <<lng, lat>>, either of them None
extract_lng_lat(obj) ==
    IF /\ "location" \in DOMAIN obj
       /\ obj.location # None
       /\ Len(obj.location.coordinates) >= 2
       /\ obj.location.coordinates[1] # None
       /\ obj.location.coordinates[2] # None
    THEN <<obj.location.coordinates[1], obj.location.coordinates[2]>>
    ELSE <<FlatValue(obj, "longitude", "lng"), FlatValue(obj, "latitude", "lat")>>

assign_to_object(obj) ==
    LET p == extract_lng_lat(obj) IN
    IF p[1] = None \/ p[2] = None
    THEN [obj EXCEPT !.neighborhood_id = None, !.neighborhood_name = None]
    ELSE LET match == find_for_point(Val(p[1]), Val(p[2])) IN
         IF match = None
         THEN [obj EXCEPT !.neighborhood_id = None, !.neighborhood_name = None]
         ELSE [obj EXCEPT !.neighborhood_id = Some(Val(match)[1]),
                          !.neighborhood_name = Some(Val(match)[2])]

\* ------------------------------------------------- Orchestrator and sink

Point(lng, lat) == [type |-> "Point", coordinates |-> <<lng, lat>>]

\* a geocoding entry written without its confidence
apply_geocode_without_confidence(d, geocode, store_mode) ==
    [d EXCEPT
       !.geocoding = [provider |-> "google", status |-> geocode.status,
                      place_id |-> geocode.place_id,
                      location_type |-> geocode.location_type,
                      partial_match |-> geocode.partial_match],
       !.address.formatted_address = geocode.formatted_address,
       !.location = IF geocode.status = "OK" /\ store_mode = STORE_MODE_COORDS
                       /\ geocode.lat # None /\ geocode.lng # None
                    THEN Point(geocode.lng, geocode.lat)
                    ELSE None,
       !.sources[1].needs_geocoding = (geocode.status # "OK")]

\* the formatted address of the result written over the address line as well
apply_geocode_over_line1(d, geocode, store_mode) ==
    [d EXCEPT
       !.geocoding = [provider |-> "google", status |-> geocode.status,
                      place_id |-> geocode.place_id,
                      location_type |-> geocode.location_type,
                      partial_match |-> geocode.partial_match,
                      confidence |-> geocode.confidence],
       !.address.formatted_address = geocode.formatted_address,
       !.address.line1 = geocode.formatted_address,
       !.location = IF geocode.status = "OK" /\ store_mode = STORE_MODE_COORDS
                       /\ geocode.lat # None /\ geocode.lng # None
                    THEN Point(geocode.lng, geocode.lat)
                    ELSE None,
       !.sources[1].needs_geocoding = (geocode.status # "OK")]

\* the point of an OK result stored in either mode
apply_geocode_in_any_mode(d, geocode, store_mode) ==
    [d EXCEPT
       !.geocoding = [provider |-> "google", status |-> geocode.status,
                      place_id |-> geocode.place_id,
                      location_type |-> geocode.location_type,
                      partial_match |-> geocode.partial_match,
                      confidence |-> geocode.confidence],
       !.address.formatted_address = geocode.formatted_address,
       !.location = IF geocode.status = "OK" /\ geocode.lat # None /\ geocode.lng # None
                    THEN Point(geocode.lng, geocode.lat)
                    ELSE None,
       !.sources[1].needs_geocoding = (geocode.status # "OK")]

apply_geocode_to_doc(d, geocode, store_mode) ==
    LET status == geocode.status IN
    [d EXCEPT
       !.geocoding = [provider |-> "google", status |-> status,
                      place_id |-> geocode.place_id,
                      location_type |-> geocode.location_type,
                      partial_match |-> geocode.partial_match,
                      confidence |-> geocode.confidence],
       !.address.formatted_address = geocode.formatted_address,
       !.location = IF status = "OK" /\ store_mode = STORE_MODE_COORDS
                       /\ geocode.lat # None /\ geocode.lng # None
                    THEN Point(geocode.lng, geocode.lat)
                    ELSE None,
       !.sources[1].needs_geocoding = (status # "OK")]

\* a --no-geocode branch that leaves the document as normalize_row made it
skip_geocode_unmarked(d) == d

\* lines 606-616: --no-geocode
skip_geocode(d) ==
    [d EXCEPT
       !.geocoding = [provider |-> "google", status |-> "SKIPPED_NO_GEOCODE",
                      place_id |-> None, location_type |-> None,
                      partial_match |-> None, confidence |-> None],
       !.location = None,
       !.sources[1].needs_geocoding = TRUE]

\* the record update_one leaves in the collection: the $set fields of the
\* document, updated_at, and the created_at that $setOnInsert gave it
Stored(d, created_at, updated_at) ==
    [dedupe_key |-> d.dedupe_key, name |-> d.name, datatype |-> d.datatype,
     place_type |-> d.place_type, subtype |-> d.subtype, description |-> d.description,
     address |-> d.address, location |-> d.location, geocoding |-> d.geocoding,
     contact |-> d.contact, neighborhood_id |-> d.neighborhood_id,
     neighborhood_name |-> d.neighborhood_name, sources |-> d.sources,
     created_at |-> created_at, updated_at |-> updated_at]

Matching(collection, d) == {u \in collection : u.dedupe_key = d.dedupe_key}

\* a sink that inserts without looking for the key
upsert_always_inserts(collection, d, now) ==
    [units |-> collection \cup {Stored(d, now, now)}, outcome |-> "inserted"]

\* a sink that sets created_at on every write
upsert_restamps(collection, d, now) ==
    [units |-> {u \in collection : u.dedupe_key # d.dedupe_key} \cup {Stored(d, now, now)},
     outcome |-> IF Matching(collection, d) = {} THEN "inserted" ELSE "updated"]

\* a sink that keeps the stored location and neighborhood when the document
\* has no location
upsert_keeps_location(collection, d, now) ==
    IF Matching(collection, d) = {}
    THEN [units |-> collection \cup {Stored(d, now, now)}, outcome |-> "inserted"]
    ELSE LET u == CHOOSE m \in Matching(collection, d) : TRUE
             kept == IF d.location # None THEN d
                     ELSE [d EXCEPT !.location = u.location,
                                    !.neighborhood_id = u.neighborhood_id,
                                    !.neighborhood_name = u.neighborhood_name]
         IN  [units |-> (collection \ {u}) \cup {Stored(kept, u.created_at, now)},
              outcome |-> "updated"]

\* update_one({dedupe_key: ...}, {$set: ..., $setOnInsert: {created_at: now}},
\* upsert=True): the collection afterwards, and the outcome returned
upsert_unit(collection, d, now) ==
    IF Matching(collection, d) = {}
    THEN [units |-> collection \cup {Stored(d, now, now)}, outcome |-> "inserted"]
    ELSE LET u == CHOOSE m \in Matching(collection, d) : TRUE IN
         [units |-> (collection \ {u}) \cup {Stored(d, u.created_at, now)},
          outcome |-> "updated"]

\* load_csv: df, or df.head(limit) for a positive limit
Take(s, n) == SubSeq(s, 1, Min(n, Len(s)))
load_csv(file, limit) ==
    IF limit # None /\ Val(limit) > 0 THEN Take(file, Val(limit)) ELSE file

\* the counters of the four scripts; rows_with_source_coords is kept by the
\* grocery and restaurant scripts only and stays 0 in the other two
NewStats ==
    [rows_read |-> 0, rows_inserted |-> 0, rows_updated |-> 0, rows_skipped |-> 0,
     rows_rejected |-> 0, rows_with_source_coords |-> 0, geocoded_ok |-> 0]

\* the script that runs: each has its own normalize_row, and the farmers file
\* alone is read with skiprows=2
Sources == {"farmers", "grocery", "restaurants", "pantries"}

\* every script with the normalizer of the farmers script
NormalizeAsFarmers(source, row) == normalize_row(row)

\* every script with the normalizer, and so the keys, of the grocery script
NormalizeAsGrocery(source, row) == grocery_normalize_row(row)

Normalize(source, row) ==
    CASE source = "farmers" -> normalize_row(row)
      [] source = "grocery" -> grocery_normalize_row(row)
      [] source = "restaurants" -> restaurants_normalize_row(row)
      [] source = "pantries" -> pantries_normalize_row(row)

LineNumber(source, i) == IF source = "farmers" THEN i + 4 ELSE i + 2

\* scripts that geocode every row
NeverChecksSourceCoords(source) == FALSE

\* the scripts whose loop asks `if doc["location"] is not None` before geocoding
ChecksSourceCoords(source) == source \in {"grocery", "restaurants"}

\* a failed upsert that is also counted as an update
upsert_failed_as_update(st) ==
    [st EXCEPT !.rows_skipped = @ + 1, !.rows_rejected = @ + 1, !.rows_updated = @ + 1]

\* a failed upsert counted as skipped only
upsert_failed_skipped_only(st) == [st EXCEPT !.rows_skipped = @ + 1]

\* lines 646-648: the counters after upsert_unit raised
upsert_failed(st) == [st EXCEPT !.rows_skipped = @ + 1, !.rows_rejected = @ + 1]

\* a reject entry that carries the 0-based row index for the line number
RejectEntryByIndex(line_no, reason, raw) ==
    [csv_line_number |-> line_no - 4, reason |-> reason, raw |-> raw]

RejectEntry(line_no, reason, raw) ==
    [csv_line_number |-> line_no, reason |-> reason, raw |-> raw]

\* startup checks that let every run through
StartupAlwaysOk(a) == TRUE

\* the startup checks of lines 548-549 and 555-557
StartupOk(a) ==
    /\ ~(~a.no_geocode /\ ~a.api_key)
    /\ ~(~a.dry_run /\ ~a.mongo_uri)

Between == {"idle", "done", "aborted", "crashed", "killed"}

Running == {"row", "lookup", "attempt", "returned", "assign", "persist"}

\* lines 530-587: a run of main starts; it builds the mapper first, and ends
\* there when that raises
StartRun ==
    /\ pc \in Between
    /\ runs < MaxRuns
    /\ runs' = runs + 1
    /\ \E a \in env.arg_sets, file \in env.inputs :
         /\ args' = a
         /\ IF Mapper.ok /\ StartupOk(a)
            THEN /\ input' = load_csv(file, a.limit)
                 /\ limiter' = NewLimiter(a.max_qps)
                 /\ pc' = "row"
            ELSE /\ input' = <<>>
                 /\ limiter' = NewLimiter(0)
                 /\ pc' = "aborted"
    /\ idx' = 0
    /\ stats' = NewStats
    /\ rejects' = <<>>
    /\ doc' = None
    /\ trace' = <<>>
    /\ outcome' = None
    /\ call' = NoCall
    /\ geocode_result' = NoResult
    /\ lastGap' = None
    /\ UNCHANGED <<env, firstLookup, cache, units, rejects_file, clock, calls>>

\* lines 589-624: the loop takes the next row, normalizes it, and rejects it,
\* skips geocoding, or enters geocode_address
ReadRow ==
    /\ pc = "row"
    /\ idx < Len(input)
    /\ LET row == input[idx + 1]
           n == Normalize(args.source, row)
           read == [stats EXCEPT !.rows_read = @ + 1]
       IN  IF ~n.ok
           THEN /\ stats' = [read EXCEPT !.rows_rejected = @ + 1, !.rows_skipped = @ + 1]
                /\ rejects' = Append(rejects,
                                     RejectEntry(LineNumber(args.source, idx), n.error, row))
                /\ idx' = idx + 1
                /\ doc' = None
                /\ trace' = <<"reject">>
                /\ pc' = "row"
                /\ UNCHANGED <<call, geocode_result>>
           ELSE IF ChecksSourceCoords(args.source) /\ n.doc.location # None
           THEN /\ stats' = [read EXCEPT !.rows_with_source_coords = @ + 1]
                /\ doc' = Some(n.doc)
                /\ trace' = <<"normalize", "source_coords">>
                /\ pc' = "assign"
                /\ UNCHANGED <<rejects, idx, call, geocode_result>>
           ELSE /\ stats' = read
                /\ UNCHANGED <<rejects, idx>>
                /\ IF args.no_geocode
                   THEN \* the grocery and restaurant scripts leave location as it
                        \* is, which in this branch is None
                        /\ doc' = Some(skip_geocode(n.doc))
                        /\ trace' = <<"normalize", "skip">>
                        /\ pc' = "assign"
                        /\ UNCHANGED <<call, geocode_result>>
                   ELSE /\ doc' = Some(n.doc)
                        /\ trace' = <<"normalize">>
                        /\ call' = EnterGeocode(build_geocode_query(n.doc), ~args.dry_run)
                        /\ geocode_result' = NoResult
                        /\ pc' = "lookup"
    /\ UNCHANGED <<env, args, input, outcome, limiter, lastGap, firstLookup, cache,
                   units, rejects_file, clock, calls, runs>>

\* lines 625-629: geocode_address has returned to main; its locals are gone
ApplyGeocode ==
    /\ pc = "returned"
    /\ doc' = Some(apply_geocode_to_doc(Val(doc), geocode_result, args.store_mode))
    /\ stats' = IF geocode_result.status = "OK"
                THEN [stats EXCEPT !.geocoded_ok = @ + 1] ELSE stats
    /\ trace' = Append(trace, "geocode")
    /\ call' = NoCall
    /\ pc' = "assign"
    /\ UNCHANGED <<env, args, input, idx, rejects, outcome, limiter, geocode_result,
                   lastGap, firstLookup, cache, units, rejects_file, clock, calls, runs>>

\* a loop that assigns the neighborhood after an OK result only
AssignAfterOkOnly ==
    /\ pc = "assign"
    /\ IF Val(doc).geocoding.status = "OK"
       THEN /\ doc' = Some(assign_to_object(Val(doc)))
            /\ trace' = Append(trace, "assign")
       ELSE UNCHANGED <<doc, trace>>
    /\ IF args.dry_run
       THEN idx' = idx + 1 /\ pc' = "row"
       ELSE idx' = idx /\ pc' = "persist"
    /\ UNCHANGED <<env, args, input, stats, rejects, outcome, geoVars, cache, units,
                   rejects_file, clock, calls, runs>>

\* lines 631-637: assign_neighborhood, and `continue` in a dry run
AssignNeighborhood ==
    /\ pc = "assign"
    /\ doc' = Some(assign_to_object(Val(doc)))
    /\ trace' = Append(trace, "assign")
    /\ IF args.dry_run
       THEN idx' = idx + 1 /\ pc' = "row"
       ELSE idx' = idx /\ pc' = "persist"
    /\ UNCHANGED <<env, args, input, stats, rejects, outcome, geoVars, cache, units,
                   rejects_file, clock, calls, runs>>

\* lines 639-653: upsert_unit, or the reject entry when it raises
Persist ==
    /\ pc = "persist"
    /\ \E raises \in env.upsert_raises :
         IF raises
         THEN /\ stats' = upsert_failed(stats)
              /\ rejects' = Append(rejects, RejectEntry(LineNumber(args.source, idx),
                                                        "mongo_upsert_error",
                                                        Val(doc).sources[1].raw))
              /\ trace' = Append(trace, "reject")
              /\ UNCHANGED <<units, clock, outcome>>
         ELSE LET r == upsert_unit(units, Val(doc), clock + 1) IN
              /\ units' = r.units
              /\ clock' = clock + 1
              /\ outcome' = Some(r.outcome)
              /\ stats' = IF r.outcome = "inserted"
                          THEN [stats EXCEPT !.rows_inserted = @ + 1]
                          ELSE [stats EXCEPT !.rows_updated = @ + 1]
              /\ trace' = Append(trace, "persist")
              /\ UNCHANGED rejects
    /\ idx' = idx + 1
    /\ pc' = "row"
    /\ UNCHANGED <<env, args, input, doc, geoVars, cache, rejects_file, calls, runs>>

\* a run that leaves the reject file alone when it has rejected nothing
dump_rejects_unless_empty(entries) == IF entries = <<>> THEN rejects_file ELSE Some(entries)

\* lines 656-657: json.dump(rejects, fh) into the file opened with "w"
dump_rejects(entries) == Some(entries)

\* lines 655-657: the loop is over, the reject list is written
FinishRun ==
    /\ pc = "row"
    /\ idx >= Len(input)
    /\ rejects_file' = dump_rejects(rejects)
    /\ pc' = "done"
    /\ UNCHANGED <<env, runVars, geoVars, cache, units, clock, calls, runs>>

\* the process is killed from outside in the middle of a run: what it held in
\* memory (stats, rejects) is gone with it, and is kept here as the record of
\* what the run had done; units, cache and rejects_file are what is stored
Kill ==
    /\ pc \in Running
    /\ pc' = "killed"
    /\ UNCHANGED <<env, args, input, idx, stats, rejects, doc, trace, outcome, geoVars,
                   cache, units, rejects_file, clock, calls, runs>>

\* ------------------------------------------------------------ environments

\* a row of the input file, by its columns
Row(name, address, city, zip) ==
    [locationname |-> name, address |-> address, city |-> city, zip |-> zip]

\* Input files.  In FileA the third row differs from the first in case and
\* spacing only, and the second has a blank name; FileB starts with a row
\* without address and a row without name and address.
FileA ==
    <<Row(<<"A", "b">>, <<"1", " ", "S", "t">>, <<>>, <<>>),
      Row(<<" ">>, <<"1", " ", "S", "t">>, <<>>, <<>>),
      Row(<<"a", "b", " ">>, <<"1", " ", " ", "s", "t">>, <<>>, <<>>)>>
FileB ==
    <<Row(<<"C">>, <<" ">>, <<>>, <<>>),
      Row(<<>>, <<>>, <<>>, <<>>),
      Row(<<"C">>, <<"2", " ", "S", "t">>, <<"r", "o", "x">>, <<"2", "1", "1", "9">>)>>

InputFiles == {FileA, FileB}

\* the command line and environment of a run
Live ==
    [source |-> "farmers", dry_run |-> FALSE, no_geocode |-> FALSE, max_qps |-> 2, limit |-> None,
     api_key |-> TRUE, mongo_uri |-> TRUE, store_mode |-> STORE_MODE_COORDS]

ArgSets ==
    {Live,
     [Live EXCEPT !.store_mode = STORE_MODE_PLACE_ID_ONLY, !.max_qps = 1, !.limit = Some(1)],
     [Live EXCEPT !.dry_run = TRUE, !.mongo_uri = FALSE],
     [Live EXCEPT !.no_geocode = TRUE, !.api_key = FALSE],
     [Live EXCEPT !.api_key = FALSE],
     [Live EXCEPT !.mongo_uri = FALSE]}

\* a closed ring around the rectangle from <<x0, y0>> to <<x1, y1>>
Rectangle(x0, y0, x1, y1) ==
    <<<<x0, y0>>, <<x1, y0>>, <<x1, y1>>, <<x0, y1>>, <<x0, y0>>>>

Polygon(rings) == [type |-> "Polygon", coordinates |-> rings]

MultiPolygon(polygons) == [type |-> "MultiPolygon", coordinates |-> polygons]

\* a feature of the boundaries file: properties.name and geometry
Boundary(name, geometry) == [name |-> name, geometry |-> geometry]

Roxbury == <<"R", "o", "x", "b", "u", "r", "y">>

Dorchester == <<"D", "o", "r", "c", "h", "e", "s", "t", "e", "r">>

\* the reference file: Roxbury, a blank name, Dorchester, and Roxbury again
\* in other letters
PopulationFile ==
    Some([fieldnames |-> {"Neighborhood", "Population"},
          rows |-> <<Some(Roxbury), Some(<<" ">>), Some(Dorchester),
                     Some(<<"r", "o", "x", "b", "u", "r", "y", " ">>)>>])

\* the boundaries file: Dorchester before Roxbury, two adjacent squares that
\* share the edge lng = 2, and a town the reference file does not name
BostonGeojson ==
    Some([features |-> Some(
       <<Boundary(Some(LowerText(Dorchester)), Polygon(<<Rectangle(2, 0, 4, 2)>>)),
         Boundary(Some(Roxbury), Polygon(<<Rectangle(0, 0, 2, 2)>>)),
         Boundary(Some(<<"M", "i", "l", "t", "o", "n">>),
                  Polygon(<<Rectangle(0, 0, 4, 3)>>))>>)])

\* the geocoding client on its own, under every kind of response
GeoEnv ==
    [codes |-> RetryableCodes \cup {400},
     faults |-> {"transport", "malformed", "notobject"},
     payloads |-> {<<"OK", <<Rooftop, NoGeometry>>>>, <<"OK", <<>>>>,
                   <<"ZERO_RESULTS", <<Rooftop>>>>, <<"OVER_QUERY_LIMIT", <<>>>>,
                   <<"REQUEST_DENIED", <<>>>>},
     qps |-> {0, 1, 2},
     cache_modes |-> {TRUE, FALSE},
     arg_sets |-> {}, inputs |-> {}, upsert_raises |-> {}, cache_raises |-> {FALSE},
     population_csv |-> PopulationFile, geojson |-> BostonGeojson]

\* an entry of the provider's result list with this geometry.location_type
\* and partial_match
Located(location_type, partial_match) ==
    [place_id |-> Some("place_1"), formatted_address |-> Some("addr_1"),
     location_type |-> location_type, partial_match |-> partial_match,
     lat |-> Some(1), lng |-> Some(1)]

LocationTypes ==
    {None, Some(""), Some("ROOFTOP"), Some("RANGE_INTERPOLATED"),
     Some("GEOMETRIC_CENTER"), Some("APPROXIMATE")}

\* the geocoding client with its cache, under OK answers of every location
\* type, with and without partial_match
ConfidenceEnv ==
    [GeoEnv EXCEPT
        !.codes = {}, !.faults = {},
        !.payloads = {<<"OK", <<Located(t, m)>>>> :
                         t \in LocationTypes, m \in {None, Some(FALSE), Some(TRUE)}},
        !.qps = {0}, !.cache_modes = {TRUE}]

\* values of the Neighborhood column: three spellings of one name, two of
\* another, a name of punctuation only, a blank and an empty cell
ReferenceNames ==
    {Some(<<"A", " ", "b">>), Some(<<"a", "-", "b">>), Some(<<" ", "A", ".", "B">>),
     Some(<<"C", "d">>), Some(<<"c", "d", ".">>), Some(<<"-">>), Some(<<" ">>), None}

MaxReferenceRows == 3

\* the reference files of up to MaxReferenceRows rows, a file without the
\* Neighborhood column, and no file
PopulationFiles ==
    {Some([fieldnames |-> {"Neighborhood", "Population"}, rows |-> rows]) :
        rows \in UNION {[1..n -> ReferenceNames] : n \in 0..MaxReferenceRows}}
      \cup {Some([fieldnames |-> {"Name"}, rows |-> <<Some(<<"C", "d">>)>>]), None}

\* the pipeline, with a store that never fails
RunEnv ==
    [codes |-> {503},
     faults |-> {"transport", "notobject"},
     payloads |-> {<<"OK", <<Rooftop>>>>, <<"OK", <<>>>>, <<"OVER_QUERY_LIMIT", <<>>>>},
     qps |-> {}, cache_modes |-> {},
     arg_sets |-> ArgSets, inputs |-> InputFiles, upsert_raises |-> {FALSE},
     cache_raises |-> {FALSE},
     population_csv |-> PopulationFile, geojson |-> BostonGeojson]

\* the pipeline, with a provider that always answers and a store that may fail
FaultyStoreEnv ==
    [codes |-> {}, faults |-> {}, payloads |-> {<<"OK", <<Rooftop>>>>},
     qps |-> {}, cache_modes |-> {},
     arg_sets |-> {Live}, inputs |-> {FileA}, upsert_raises |-> {FALSE, TRUE},
     cache_raises |-> {FALSE},
     population_csv |-> PopulationFile, geojson |-> BostonGeojson]

\* a row of a file with coordinate columns, which every script can read: each
\* finds its name under "name" and its street under "address"
SourceRow(name, address, latitude, longitude) ==
    [name |-> name, address |-> address, city |-> <<"R", "o", "x", "/">>, zip |-> <<>>,
     latitude |-> latitude, longitude |-> longitude]

\* The first row has both coordinates, a point of Dorchester; the second has
\* no address; the third has a longitude and a latitude that is no number;
\* the fourth has no coordinate columns at all.
SourceFile ==
    <<SourceRow(<<"A">>, <<"1", " ", "S", "t">>, <<"1">>, <<" ", "3">>),
      SourceRow(<<"B">>, <<" ">>, <<"1">>, <<"1">>),
      SourceRow(<<"B">>, <<"2", " ", "S", "t">>, <<"n", "o">>, <<"3">>),
      [name |-> <<"C", "&", "d">>, address |-> <<"3", " ", "S", "t">>]>>

\* the four scripts over the same file and collection, with and without
\* --no-geocode, and a provider that always answers
SourcesEnv ==
    [codes |-> {}, faults |-> {}, payloads |-> {<<"OK", <<Rooftop>>>>},
     qps |-> {}, cache_modes |-> {},
     arg_sets |-> {[Live EXCEPT !.source = s, !.no_geocode = ng, !.max_qps = 0] :
                     s \in Sources, ng \in BOOLEAN},
     inputs |-> {SourceFile}, upsert_raises |-> {FALSE}, cache_raises |-> {FALSE},
     population_csv |-> PopulationFile, geojson |-> BostonGeojson]

\* boundary files that leave Dorchester out: one without a boundary of that
\* name, one whose boundary of Dorchester has a blank name
RoxburyOnlyGeojson ==
    Some([features |-> Some(
       <<Boundary(Some(Roxbury), Polygon(<<Rectangle(0, 0, 2, 2)>>)),
         Boundary(Some(<<"M", "i", "l", "t", "o", "n">>),
                  Polygon(<<Rectangle(2, 0, 4, 2)>>))>>)])

UnnamedGeojson ==
    Some([features |-> Some(
       <<Boundary(Some(<<" ">>), Polygon(<<Rectangle(2, 0, 4, 2)>>)),
         Boundary(Some(Roxbury), Polygon(<<Rectangle(0, 0, 2, 2)>>))>>)])

\* the four scripts over boundary files that do and that do not cover the
\* reference file
BoundariesEnvs ==
    {[SourcesEnv EXCEPT !.geojson = geojson] :
        geojson \in {BostonGeojson, RoxburyOnlyGeojson, UnnamedGeojson}}

\* the farmers script with a geocode cache whose store may fail
FaultyCacheEnv ==
    [codes |-> {}, faults |-> {},
     payloads |-> {<<"OK", <<Rooftop>>>>, <<"REQUEST_DENIED", <<>>>>},
     qps |-> {}, cache_modes |-> {},
     arg_sets |-> {Live}, inputs |-> {FileA}, upsert_raises |-> {FALSE},
     cache_raises |-> {FALSE, TRUE},
     population_csv |-> PopulationFile, geojson |-> BostonGeojson]

\* rows for the normalizers on their own: the first three differ in letter
\* case, in runs of spaces, in the leading zero of the zip and in columns that
\* are not part of the key; the fourth has another name; the fifth names no
\* city and the sixth names Boston; the last has a blank name
NormRow(name, address, city, zip) ==
    [name |-> name, address |-> address, city |-> city, zip |-> zip]

NormRows ==
    {NormRow(<<"A", "b">>, <<"1", " ", "S", "t">>, <<"r", "o", "x">>, <<"2", "1", "1", "9">>),
     NormRow(<<" ", "a", "B">>, <<"1", " ", " ", "s", "t">>, <<"R", "O", "X", " ">>, <<"0", "2", "1", "1", "9">>),
     [name |-> <<"A", "b">>, address |-> <<"1", " ", "S", "t">>, city |-> <<"r", "o", "x">>, zip |-> <<"2", "1", "1", "9">>,
      state |-> <<"m", "a">>, description |-> <<"c", "s", "a">>, phone |-> <<"5">>],
     NormRow(<<"A", "c">>, <<"1", " ", "S", "t">>, <<"r", "o", "x">>, <<"2", "1", "1", "9">>),
     NormRow(<<"A", "b">>, <<"1", " ", "S", "t">>, <<>>, <<"2", "1", "1", "9">>),
     NormRow(<<"A", "b">>, <<"1", " ", "S", "t">>, <<"B", "o", "s", "t", "o", "n">>, <<"2", "1", "1", "9">>),
     NormRow(<<" ">>, <<"1", " ", "S", "t">>, <<"r", "o", "x">>, <<"2", "1", "1", "9">>)}

\* a row with a name, an address and this value in its phone column
PhoneRow(phone) ==
    [name |-> <<"A">>, address |-> <<"1", " ", "S", "t">>, phone |-> phone]

\* phones of ten digits, of eleven digits with and without a leading 1, one
\* written as a float, a short one, one without digits, one of zeros only, a
\* blank one and one with a letter; and a row without a phone column
PhoneRows ==
    {PhoneRow(phone) : phone \in
        {<<"6", "1", "7", "-", "5", "5", "5", "-", "0", "1", "0", "0">>,
         <<"1", "-", "6", "1", "7", "-", "5", "5", "5", "-", "0", "1", "0", "0">>,
         <<"6", "1", "7", "5", "5", "5", "0", "1", "0", "0", ".", "0">>,
         <<"2", "6", "1", "7", "5", "5", "5", "0", "1", "0", "0">>,
         <<"5", "5", "5", "-", "0", "1", "0", "0">>,
         <<"n", "/", "a">>,
         <<"0", "0", "0", "0", "0", "0", "0", "0", "0", "0">>,
         <<" ">>,
         <<"x", "5">>}}
      \cup {[name |-> <<"A">>, address |-> <<"1", " ", "S", "t">>]}

\* a row with a name, an address and a city and no other column
KeyRow(name, address, city) == [name |-> name, address |-> address, city |-> city]

\* rows whose name, address or city holds the character the parts of a key are
\* joined with, next to rows without it: one of them in other letter case and
\* spacing, and one without a city
KeyRows ==
    {KeyRow(<<"a", "|", "b">>, <<"c">>, <<"x">>),
     KeyRow(<<"a">>, <<"b", "|", "c">>, <<"x">>),
     KeyRow(<<"a">>, <<"b">>, <<"c", "|", "x">>),
     KeyRow(<<"a">>, <<"c">>, <<"x">>),
     KeyRow(<<"A", " ">>, <<"C">>, <<" ", "X">>),
     [name |-> <<"a">>, address |-> <<"c">>]}

NoEnv ==
    [codes |-> {}, faults |-> {}, payloads |-> {}, qps |-> {}, cache_modes |-> {},
     arg_sets |-> {}, inputs |-> {}, upsert_raises |-> {}, cache_raises |-> {},
     population_csv |-> PopulationFile, geojson |-> BostonGeojson]

\* a closed ring around the triangle of three corners
Triangle(a, b, c) == <<a, b, c, a>>

\* Roxbury with a hole, and Dorchester in two parts: a square in that hole and
\* a triangle over the corner at the origin
HolesGeojson ==
    Some([features |-> Some(
       <<Boundary(Some(Roxbury),
                  Polygon(<<Rectangle(0, 0, 4, 4), Rectangle(1, 1, 3, 3)>>)),
         Boundary(Some(Dorchester),
                  MultiPolygon(<< <<Rectangle(2, 2, 3, 3)>>,
                                  <<Triangle(<<0, 0>>, <<2, 0>>, <<0, 2>>)>> >>))>>)])

\* Dorchester over the whole grid and named first, Roxbury twice, as a diamond
\* and as a square, a boundary without a name and one without coordinates
OverlapGeojson ==
    Some([features |-> Some(
       <<Boundary(Some(Dorchester), Polygon(<<Rectangle(0, 0, 4, 4)>>)),
         Boundary(Some(Roxbury),
                  Polygon(<< <<<<2, 0>>, <<4, 2>>, <<2, 4>>, <<0, 2>>, <<2, 0>>>> >>)),
         Boundary(None, Polygon(<<Rectangle(0, 0, 4, 4)>>)),
         Boundary(Some(<<" ", "R", "O", "X", "B", "U", "R", "Y">>),
                  Polygon(<<Rectangle(0, 0, 1, 1)>>)),
         Boundary(Some(Dorchester), Polygon(<<>>))>>)])

MapperFiles == {BostonGeojson, HolesGeojson, OverlapGeojson}

Grid == 0..4

Old == Some(<<"O", "l", "d">>)

\* the objects with the point <<lng, lat>>: under location, under location
\* without its latitude, under the flat keys of either pair, and with a null
\* location next to flat keys; each without and with prior values
ObjectsAt(lng, lat) ==
    UNION {{[location |-> None, neighborhood_id |-> id, neighborhood_name |-> name],
            [location |-> Point(Some(lng), Some(lat)),
             neighborhood_id |-> id, neighborhood_name |-> name],
            [location |-> Point(Some(lng), None),
             neighborhood_id |-> id, neighborhood_name |-> name],
            [longitude |-> Some(lng), latitude |-> Some(lat),
             neighborhood_id |-> id, neighborhood_name |-> name],
            [location |-> None, lng |-> Some(lng), lat |-> Some(lat),
             neighborhood_id |-> id, neighborhood_name |-> name]} :
           <<id, name>> \in {<<None, None>>, <<Some(7), Old>>}}

\* queries of the stand-alone caller; the first two have the same hash
Queries == {<<"a">>, <<"A", " ">>, <<"b">>}

\* a caller of geocode_address other than main
CallGeocode ==
    /\ pc \in {"idle", "returned"}
    /\ calls < MaxCalls
    /\ calls' = calls + 1
    /\ \E q \in Queries, use_cache \in env.cache_modes :
         call' = EnterGeocode(q, use_cache)
    /\ geocode_result' = NoResult
    /\ pc' = "lookup"
    /\ UNCHANGED <<env, runVars, limiter, lastGap, firstLookup, cache, units,
                   rejects_file, clock, runs>>

\* --------------------------------------------------------- specifications

Start ==
    /\ pc = "idle"
    /\ args = Live
    /\ input = <<>>
    /\ idx = 0
    /\ stats = NewStats
    /\ rejects = <<>>
    /\ doc = None
    /\ trace = <<>>
    /\ outcome = None
    /\ call = NoCall
    /\ geocode_result = NoResult
    /\ lastGap = None
    /\ firstLookup = EmptyMap
    /\ cache = EmptyMap
    /\ units = {}
    /\ rejects_file = None
    /\ clock = 0
    /\ calls = 0
    /\ runs = 0

Init ==
    /\ env \in {RunEnv, FaultyStoreEnv}
    /\ limiter = NewLimiter(0)
    /\ Start

Next ==
    \/ StartRun
    \/ ReadRow
    \/ GeocodeLookup
    \/ Attempt
    \/ ApplyGeocode
    \/ AssignNeighborhood
    \/ Persist
    \/ FinishRun

Spec == Init /\ [][Next]_vars

\* the four scripts
InitSources ==
    /\ env = SourcesEnv
    /\ limiter = NewLimiter(0)
    /\ Start

SpecSources == InitSources /\ [][Next]_vars

\* a run whose cache store may fail and whose process may be killed
InitFaulty ==
    /\ env = FaultyCacheEnv
    /\ limiter = NewLimiter(0)
    /\ Start

NextFaulty ==
    \/ StartRun
    \/ ReadRow
    \/ GeocodeLookup
    \/ Attempt
    \/ ApplyGeocode
    \/ AssignNeighborhood
    \/ Persist
    \/ FinishRun
    \/ Kill

SpecFaulty == InitFaulty /\ [][NextFaulty]_vars

\* the four scripts over one of several boundary files
InitBoundaries ==
    /\ env \in BoundariesEnvs
    /\ limiter = NewLimiter(0)
    /\ Start

SpecBoundaries == InitBoundaries /\ [][Next]_vars

\* a normalizer applied to two rows, one after the other
InitNorm ==
    /\ env = NoEnv
    /\ limiter = NewLimiter(0)
    /\ \E source \in Sources, first \in NormRows, second \in NormRows :
          /\ args = [Live EXCEPT !.source = source]
          /\ input = <<first, second>>
    /\ pc = "idle" /\ idx = 0 /\ stats = NewStats /\ rejects = <<>> /\ doc = None
    /\ trace = <<>> /\ outcome = None /\ call = NoCall /\ geocode_result = NoResult
    /\ lastGap = None /\ firstLookup = EmptyMap /\ cache = EmptyMap /\ units = {}
    /\ rejects_file = None /\ clock = 0 /\ calls = 0 /\ runs = 0

\* normalize_row(row) of the script args.source, its result kept in trace
NormalizeNext ==
    /\ idx < Len(input)
    /\ trace' = Append(trace, Normalize(args.source, input[idx + 1]))
    /\ idx' = idx + 1
    /\ UNCHANGED <<env, pc, args, input, stats, rejects, doc, outcome, geoVars, cache,
                   units, rejects_file, clock, calls, runs>>

NextNorm == NormalizeNext

SpecNorm == InitNorm /\ [][NextNorm]_vars

\* the mapper on its own, over one of the boundary files: the point of its
\* command line, and an object that carries this point
InitMapper ==
    /\ \E geojson \in MapperFiles : env = [NoEnv EXCEPT !.geojson = geojson]
    /\ limiter = NewLimiter(0)
    /\ \E lng \in Grid, lat \in Grid :
          /\ args = [lng |-> lng, lat |-> lat]
          /\ \E obj \in ObjectsAt(lng, lat) : doc = Some(obj)
    /\ pc = "idle" /\ input = <<>> /\ idx = 0 /\ stats = NewStats /\ rejects = <<>>
    /\ trace = <<>> /\ outcome = None /\ call = NoCall /\ geocode_result = NoResult
    /\ lastGap = None /\ firstLookup = EmptyMap /\ cache = EmptyMap /\ units = {}
    /\ rejects_file = None /\ clock = 0 /\ calls = 0 /\ runs = 0

\* main of the mapper: mapper.find_for_point(lng=args.lng, lat=args.lat), run
\* twice, its results kept in trace
Lookup ==
    /\ Mapper.ok
    /\ idx < 2
    /\ trace' = Append(trace, find_for_point(args.lng, args.lat))
    /\ idx' = idx + 1
    /\ UNCHANGED <<env, pc, args, input, stats, rejects, doc, outcome, geoVars, cache,
                   units, rejects_file, clock, calls, runs>>

\* geometry_contains_point on the geometry of every feature, the results kept
\* in outcome
Contain ==
    /\ Mapper.ok
    /\ outcome = None
    /\ outcome' = Some([i \in 1..Len(Features) |->
                          geometry_contains_point(Features[i].geometry, args.lng, args.lat)])
    /\ UNCHANGED <<env, pc, args, input, idx, stats, rejects, doc, trace, geoVars, cache,
                   units, rejects_file, clock, calls, runs>>

\* assign_neighborhood(obj, mapper)
Assign ==
    /\ Mapper.ok
    /\ pc = "idle"
    /\ doc' = Some(assign_to_object(Val(doc)))
    /\ pc' = "done"
    /\ UNCHANGED <<env, args, input, idx, stats, rejects, trace, outcome, geoVars, cache,
                   units, rejects_file, clock, calls, runs>>

NextMapper ==
    \/ Lookup
    \/ Contain
    \/ Assign

SpecMapper == InitMapper /\ [][NextMapper]_vars

InitGeo ==
    /\ env = GeoEnv
    /\ \E q \in env.qps : limiter = NewLimiter(q)
    /\ Start

NextGeo ==
    \/ CallGeocode
    \/ GeocodeLookup
    \/ Attempt

SpecGeo == InitGeo /\ [][NextGeo]_vars

InitConfidence ==
    /\ env = ConfidenceEnv
    /\ limiter = NewLimiter(0)
    /\ Start

SpecConfidence == InitConfidence /\ [][NextGeo]_vars

\* load_population_ids on its own, over one of the reference files
InitPopulation ==
    /\ \E file \in PopulationFiles : env = [NoEnv EXCEPT !.population_csv = file]
    /\ limiter = NewLimiter(0)
    /\ Start

\* load_population_ids(population_csv_path), called twice, its results kept
\* in trace
LoadPopulation ==
    /\ idx < 2
    /\ trace' = Append(trace, load_population_ids(env.population_csv))
    /\ idx' = idx + 1
    /\ UNCHANGED <<env, pc, args, input, stats, rejects, doc, outcome, geoVars, cache,
                   units, rejects_file, clock, calls, runs>>

NextPopulation == LoadPopulation

SpecPopulation == InitPopulation /\ [][NextPopulation]_vars

\* the normalizer of a script applied to two rows that differ in their phone
InitPhone ==
    /\ env = NoEnv
    /\ limiter = NewLimiter(0)
    /\ \E source \in Sources, first \in PhoneRows, second \in PhoneRows :
          /\ args = [Live EXCEPT !.source = source]
          /\ input = <<first, second>>
    /\ pc = "idle" /\ idx = 0 /\ stats = NewStats /\ rejects = <<>> /\ doc = None
    /\ trace = <<>> /\ outcome = None /\ call = NoCall /\ geocode_result = NoResult
    /\ lastGap = None /\ firstLookup = EmptyMap /\ cache = EmptyMap /\ units = {}
    /\ rejects_file = None /\ clock = 0 /\ calls = 0 /\ runs = 0

SpecPhone == InitPhone /\ [][NextNorm]_vars

\* normalize_row of one script over two of the rows above
InitKeys ==
    /\ env = NoEnv
    /\ limiter = NewLimiter(0)
    /\ \E source \in Sources, first \in KeyRows, second \in KeyRows :
          /\ args = [Live EXCEPT !.source = source]
          /\ input = <<first, second>>
    /\ pc = "idle" /\ idx = 0 /\ stats = NewStats /\ rejects = <<>> /\ doc = None
    /\ trace = <<>> /\ outcome = None /\ call = NoCall /\ geocode_result = NoResult
    /\ lastGap = None /\ firstLookup = EmptyMap /\ cache = EmptyMap /\ units = {}
    /\ rejects_file = None /\ clock = 0 /\ calls = 0 /\ runs = 0

SpecKeys == InitKeys /\ [][NextNorm]_vars

\* ================================================================== claims

\* the latest attempt of the call in progress answered with provider status OK
LastOk == call.last.kind = "payload" /\ call.last.status = "OK"

\* the four waits 0.5, 1, 2 and 4 time-units, in ticks
FourDoublingWaits == <<1, 2, 4, 8>>

\* C1: a call makes at most 5 network attempts; and when attempts 1 to 4 each
\* failed with HTTP 503 and the fifth returned provider status OK, the call
\* returns status OK with from_cache false after exactly 5 requests and the
\* four backoff waits 0.5, 1, 2, 4, each double the previous.
C1_FifthAttemptSucceeds ==
    /\ call.requests <= max_attempts
    /\ (pc = "returned" /\ call.attempt = 4 /\ call.only503 /\ LastOk)
         => /\ geocode_result.status = "OK"
            /\ ~geocode_result.from_cache
            /\ call.requests = 5
            /\ call.waits = FourDoublingWaits
            /\ \A i \in 2..Len(call.waits) : call.waits[i] = 2 * call.waits[i - 1]

C1_Witness ==
    /\ pc = "returned"
    /\ call.attempt = 4
    /\ call.only503
    /\ LastOk
    /\ geocode_result.place_id = Some("place_1")

\* the failures the specification lists as retryable
ListedRetryable(o) ==
    \/ o.kind = "http" /\ o.code \in RetryableCodes
    \/ o.kind = "payload" /\ o.status = "OVER_QUERY_LIMIT"
    \/ o.kind = "transport"

\* an attempt has been made and the call is either about to make another
\* one, has returned, or has raised
Attempted == call.requests >= 1 /\ pc \in {"attempt", "returned", "crashed"}

\* C2 (as stated): an attempt is followed by a backoff wait and another
\* attempt iff fewer than 5 attempts have been made and it failed with HTTP
\* 429/500/502/503/504, OVER_QUERY_LIMIT or a transport failure; so an
\* unparseable response ends the call on that attempt.
C2_AsStated ==
    Attempted =>
       ((pc = "attempt") <=> (call.requests < max_attempts /\ ListedRetryable(call.last)))

\* C2 (amended): an attempt is followed by a backoff wait and another attempt
\* iff fewer than 5 attempts have been made and it failed with a listed
\* retryable failure or with a body that does not parse as JSON; every other
\* attempt ends the call with no backoff wait, an HTTP error with status
\* HTTP_<code>, a transport failure or unparseable body with REQUEST_FAILED.
C2_RetryIff ==
    Attempted =>
       /\ (pc = "attempt") <=>
             /\ call.requests < max_attempts
             /\ (ListedRetryable(call.last) \/ call.last.kind = "malformed")
       /\ pc = "attempt" => Len(call.waits) = call.requests /\ call.attempt = call.requests
       /\ pc # "attempt" => Len(call.waits) = call.requests - 1
       /\ (pc = "returned" /\ call.last.kind = "http")
             => geocode_result = Returned(NullFields(HttpStatus(call.last.code)), FALSE, call.q_hash)
       /\ (pc = "returned" /\ call.last.kind \in {"transport", "malformed"})
             => geocode_result = Returned(NullFields("REQUEST_FAILED"), FALSE, call.q_hash)

\* a body that does not parse has been followed by a backoff wait
C2_Witness ==
    /\ pc = "attempt"
    /\ call.last.kind = "malformed"
    /\ call.requests = 1
    /\ call.waits = <<InitialBackoff>>

\* the fifth attempt of a call has failed with a retryable condition
Exhausted ==
    /\ pc = "returned"
    /\ call.requests = max_attempts
    /\ ListedRetryable(call.last)

\* the status the specification derives from a failure
ExpectedStatus(o) ==
    IF o.kind = "http" THEN HttpStatus(o.code)
    ELSE IF o.kind = "payload" THEN "OVER_QUERY_LIMIT"
    ELSE "REQUEST_FAILED"

ExhaustedStatuses ==
    {HttpStatus(c) : c \in RetryableCodes} \cup {"REQUEST_FAILED", "OVER_QUERY_LIMIT"}

\* the record carries a failed geocoding: that status, no location, still to geocode
RecordsFailure(d, status) ==
    /\ d.geocoding.status = status
    /\ d.geocoding.place_id = None
    /\ d.address.formatted_address = None
    /\ d.location = None
    /\ d.sources[1].needs_geocoding = TRUE

\* C3: when all 5 attempts of a call fail with a retryable condition the call
\* returns HTTP_<code>, REQUEST_FAILED or OVER_QUERY_LIMIT, according to the
\* last failure, with every positional field null; main records that status
\* on the record with location null and needs_geocoding true; and the row
\* goes on to neighborhood assignment and, unless the run is dry, to the
\* upsert, which stores it as recorded.
C3_ExhaustedRetries ==
    /\ [](Exhausted =>
            geocode_result = Returned(NullFields(ExpectedStatus(call.last)), FALSE, call.q_hash))
    /\ [][Exhausted =>
            /\ pc' = "assign"
            /\ RecordsFailure(Val(doc'), ExpectedStatus(call.last))]_vars
    /\ [][(pc = "assign" /\ Val(doc).geocoding.status \in ExhaustedStatuses) =>
            /\ pc' = IF args.dry_run THEN "row" ELSE "persist"
            /\ RecordsFailure(Val(doc'), Val(doc).geocoding.status)
            /\ Val(doc').neighborhood_id = None]_vars
    /\ [][(pc = "persist" /\ Val(doc).geocoding.status \in ExhaustedStatuses
             /\ rejects' = rejects) =>
            \E u \in units' :
               /\ u.dedupe_key = Val(doc).dedupe_key
               /\ RecordsFailure(u, Val(doc).geocoding.status)]_vars

C3_Witness ==
    /\ pc = "row"
    /\ doc # None
    /\ Val(doc).geocoding.status = "OVER_QUERY_LIMIT"
    /\ \E u \in units : u.dedupe_key = Val(doc).dedupe_key /\ RecordsFailure(u, "OVER_QUERY_LIMIT")
    /\ \E u \in units : RecordsFailure(u, "HTTP_503")

\* C4: with max_qps > 0, two consecutive outbound requests of a run, whether
\* of one call or of different rows, are at least 1/max_qps apart (a request
\* goes out when wait() returns).  N consecutive requests then span at least
\* (N-1)/max_qps, the sum of their N-1 gaps: (N-1)*0.5 at max_qps = 2.
C4_MinSpacing ==
    (limiter.max_qps > 0 /\ lastGap # None) => Val(lastGap) >= min_interval(limiter)

\* the first request of a row goes out, the previous row's request behind it
C4_Witness ==
    /\ limiter.max_qps = 2
    /\ idx = 2
    /\ call.requests = 1
    /\ lastGap = Some(1)

\* C5: once a network lookup of a run that uses the cache has returned OK for
\* a query hash, a later call with that hash, in this run or in a later one,
\* makes no request and no limiter wait and returns from_cache true, status
\* OK and the place_id, formatted_address, lat and lng of that first lookup.
C5_CacheHit ==
    (call.known /\ pc # "lookup") =>
       /\ pc = "returned"
       /\ call.requests = 0
       /\ call.limiter_waits = 0
       /\ geocode_result.from_cache
       /\ geocode_result.status = "OK"
       /\ geocode_result.lat = firstLookup[call.q_hash].lat
       /\ geocode_result.lng = firstLookup[call.q_hash].lng
       /\ geocode_result.place_id = firstLookup[call.q_hash].place_id
       /\ geocode_result.formatted_address = firstLookup[call.q_hash].formatted_address

\* a hit in the second run, on an entry that holds coordinates
C5_Witness ==
    /\ call.known
    /\ pc = "returned"
    /\ runs = 2
    /\ idx = 0
    /\ geocode_result.from_cache
    /\ geocode_result.lat = Some(1)

\* C6: the cache changes only when a call that missed it obtains provider
\* status OK; the step adds the entry of the call's query hash and leaves
\* every other entry as it is, so no entry is ever modified or removed.
C6_CacheWriteOnce ==
    [][cache' # cache =>
         /\ pc = "attempt"
         /\ call.use_cache
         /\ call.q_hash \notin DOMAIN cache
         /\ pc' = "returned"
         /\ geocode_result'.status = "OK"
         /\ DOMAIN cache' = DOMAIN cache \cup {call.q_hash}
         /\ \A h \in DOMAIN cache : cache'[h] = cache[h]]_vars

\* a second entry has been written and the first is as it was written
C6_Witness ==
    /\ clock = 2
    /\ Cardinality(DOMAIN cache) = 2
    /\ \E h \in DOMAIN cache : cache[h].cached_at = 1

\* the geocode step of the row in hand has just been applied
GeocodeApplied == pc = "assign" /\ trace = <<"normalize", "geocode">>

\* C7 (as stated): after the geocode step in store_coords mode, a result with
\* status OK leaves a non-null Point [lng, lat], the result's
\* formatted_address and metadata and needs_geocoding false; any other status
\* leaves location null, needs_geocoding true and that status.
C7_AsStated ==
    (GeocodeApplied /\ args.store_mode = STORE_MODE_COORDS) =>
       LET d == Val(doc)
           g == geocode_result
       IN  IF g.status = "OK"
           THEN /\ d.location # None
                /\ g.lng # None /\ g.lat # None
                /\ d.location = Point(g.lng, g.lat)
                /\ d.address.formatted_address = g.formatted_address
                /\ d.geocoding = [provider |-> "google", status |-> "OK",
                                  place_id |-> g.place_id,
                                  location_type |-> g.location_type,
                                  partial_match |-> g.partial_match,
                                  confidence |-> g.confidence]
                /\ d.sources[1].needs_geocoding = FALSE
           ELSE /\ d.location = None
                /\ d.sources[1].needs_geocoding = TRUE
                /\ d.geocoding.status = g.status

\* the payload of a stored record: the record without its two stamps
DocOf(u) ==
    [dedupe_key |-> u.dedupe_key, name |-> u.name, datatype |-> u.datatype,
     place_type |-> u.place_type, subtype |-> u.subtype, description |-> u.description,
     address |-> u.address, location |-> u.location, geocoding |-> u.geocoding,
     contact |-> u.contact, neighborhood_id |-> u.neighborhood_id,
     neighborhood_name |-> u.neighborhood_name, sources |-> u.sources]

\* a stored record without updated_at
Lasting(u) == [doc |-> DocOf(u), created_at |-> u.created_at]

\* the step is an upsert_unit call that returned
Upserted == pc = "persist" /\ rejects' = rejects /\ pc' = "row"

HasKey(collection, key) == \E u \in collection : u.dedupe_key = key

\* C8: the store holds at most one record per dedupe_key; upsert_unit returns
\* 'inserted' exactly when no record with the key existed and 'updated'
\* otherwise; the written record's created_at is the time of its first write
\* and its updated_at the time of this one; nothing else changes the store,
\* and no other record is touched.
C8_UpsertByKey ==
    /\ [](\A u, v \in units : u.dedupe_key = v.dedupe_key => u = v)
    /\ [][units' # units => Upserted]_vars
    /\ [][Upserted =>
            LET key == Val(doc).dedupe_key IN
            /\ outcome' = Some(IF HasKey(units, key) THEN "updated" ELSE "inserted")
            /\ \A u \in units : u.dedupe_key # key => u \in units'
            /\ \A w \in units' :
                  IF w.dedupe_key = key
                  THEN /\ DocOf(w) = Val(doc)
                       /\ w.updated_at = clock'
                       /\ clock' > clock
                       /\ \A u \in units : u.dedupe_key = key => w.created_at = u.created_at
                       /\ ~HasKey(units, key) => w.created_at = clock'
                  ELSE w \in units]_vars

\* two records, one of them written twice
C8_Witness ==
    /\ Cardinality(units) = 2
    /\ \E u \in units : u.created_at < u.updated_at
    /\ \E u \in units : u.created_at = u.updated_at
    /\ outcome = Some("updated")

\* the distinct dedupe keys of the rows of a file
KeysOf(file) ==
    {normalize_row(file[i]).doc.dedupe_key : i \in {j \in 1..Len(file) : normalize_row(file[j]).ok}}

InputKeys == UNION {KeysOf(f) : f \in InputFiles}

\* C9: upserting a record twice leaves what upserting it once leaves, except
\* for updated_at, and the second call returns 'updated'; a run that upserts
\* a record equal to the stored one changes nothing but updated_at; and the
\* number of stored records never exceeds the number of distinct keys of the
\* inputs, however often they are run.
C9_Idempotent ==
    /\ [](pc = "persist" =>
            LET once == upsert_unit(units, Val(doc), clock + 1)
                twice == upsert_unit(once.units, Val(doc), clock + 2)
            IN  /\ twice.outcome = "updated"
                /\ {Lasting(u) : u \in twice.units} = {Lasting(u) : u \in once.units}
                /\ Cardinality(twice.units) = Cardinality(once.units))
    /\ [][(Upserted /\ \E u \in units : DocOf(u) = Val(doc)) =>
            /\ outcome' = Some("updated")
            /\ {Lasting(u) : u \in units'} = {Lasting(u) : u \in units}
            /\ Cardinality(units') = Cardinality(units)]_vars
    /\ [](Cardinality(units) <= Cardinality(InputKeys))

\* the second run is about to upsert the very record the first run stored
C9_Witness ==
    /\ pc = "persist"
    /\ runs = 2
    /\ \E u \in units : DocOf(u) = Val(doc) /\ u.created_at < u.updated_at

NameBlank(row) == clean_text(get_field(row, <<"locationname", "name">>)) = None
LineBlank(row) == clean_text(get_field(row, <<"address", "streetaddress", "locationaddress">>)) = None

\* C10: when the name or the address line of the next row is blank after
\* cleaning, the step appends one reject entry with the row's line number,
\* the reason naming the missing field (the name when both are blank) and the
\* raw row, adds one to rows_rejected and to rows_skipped, makes no geocode
\* request, no neighborhood assignment and no upsert, and goes on to the
\* next row.
C10_RejectBlankRow ==
    [][(pc = "row" /\ idx < Len(input)
          /\ (NameBlank(input[idx + 1]) \/ LineBlank(input[idx + 1]))) =>
         LET row == input[idx + 1] IN
         /\ rejects' = Append(rejects,
               [csv_line_number |-> idx + 4,
                reason |-> IF NameBlank(row) THEN "missing required field: name"
                           ELSE "missing required field: address.line1",
                raw |-> row])
         /\ stats' = [stats EXCEPT !.rows_read = @ + 1, !.rows_rejected = @ + 1,
                                   !.rows_skipped = @ + 1]
         /\ UNCHANGED <<call, limiter, lastGap, geocode_result, cache, units, outcome>>
         /\ trace' = <<"reject">>
         /\ idx' = idx + 1
         /\ pc' = "row"]_vars

\* a row without address line and a row without name and address line have
\* been rejected, and the next row is being geocoded
C10_Witness ==
    /\ Len(rejects) = 2
    /\ rejects[1].reason = "missing required field: address.line1"
    /\ rejects[1].csv_line_number = 4
    /\ rejects[2].reason = "missing required field: name"
    /\ rejects[2].csv_line_number = 5
    /\ stats.rows_rejected = 2
    /\ stats.rows_skipped = 2
    /\ idx = 2
    /\ pc = "attempt"

\* C11: when upsert_unit raises for a row, the step appends exactly one reject
\* entry whose reason is the mongo_upsert_error one, with the row's line
\* number and raw row, adds one to rows_rejected and to rows_skipped and
\* nothing to rows_inserted or rows_updated, leaves every stored record as
\* it was, and goes on to the next row.
C11_UpsertFailure ==
    [][(pc = "persist" /\ trace' = Append(trace, "reject")) =>
         /\ rejects' = Append(rejects,
               [csv_line_number |-> idx + 4, reason |-> "mongo_upsert_error",
                raw |-> input[idx + 1]])
         /\ stats' = [stats EXCEPT !.rows_rejected = @ + 1, !.rows_skipped = @ + 1]
         /\ units' = units
         /\ outcome' = outcome
         /\ idx' = idx + 1
         /\ pc' = "row"]_vars

\* the first row was inserted, the second rejected for its blank name, and the
\* upsert of the third has raised: the first record is still stored
C11_Witness ==
    /\ pc = "row"
    /\ idx = 3
    /\ Len(rejects) = 2
    /\ rejects[2].reason = "mongo_upsert_error"
    /\ rejects[2].csv_line_number = 6
    /\ stats.rows_inserted = 1
    /\ stats.rows_updated = 0
    /\ stats.rows_rejected = 2
    /\ Cardinality(units) = 1

\* C12 (as stated): once the startup checks have passed no failure local to a
\* row ends the run, a failure of the cache lookup or of the cache write
\* inside the geocode step included: the run is never ended by an exception
\* out of the geocode step, and a row whose geocoding failed goes on to the
\* neighborhood step with a null location and the failure status recorded.
C12_AsStated ==
    /\ pc # "crashed"
    /\ (pc = "assign" /\ doc # None /\ Val(doc).geocoding.status # "OK") =>
          /\ Val(doc).location = None
          /\ Val(doc).sources[1].needs_geocoding

\* the reject list holds rows of the input in file order, each once, with the
\* row's line number and raw row: every row that does not normalize, and
\* otherwise rows whose upsert raised
RejectsInOrder ==
    /\ \A i \in 1..Len(rejects) :
          /\ rejects[i].csv_line_number \in 4..Len(input) + 3
          /\ rejects[i].raw = input[rejects[i].csv_line_number - 3]
          /\ LET row == rejects[i].raw IN
             IF NameBlank(row) THEN rejects[i].reason = "missing required field: name"
             ELSE IF LineBlank(row)
             THEN rejects[i].reason = "missing required field: address.line1"
             ELSE rejects[i].reason = "mongo_upsert_error"
    /\ \A i, j \in 1..Len(rejects) :
          i < j => rejects[i].csv_line_number < rejects[j].csv_line_number
    /\ \A k \in 1..Len(input) :
          (NameBlank(input[k]) \/ LineBlank(input[k])) =>
             \E i \in 1..Len(rejects) : rejects[i].csv_line_number = k + 3

\* C13: a run that passes the startup checks and reaches the end of its input
\* writes the reject file once, after the last row and nowhere else, also
\* when nothing was rejected (the file then holds the empty list); the file
\* holds exactly the rejected rows, one entry per reject, in file order.
C13_RejectFile ==
    /\ [][rejects_file' # rejects_file => pc = "row" /\ pc' = "done"]_vars
    /\ [][(pc \in Running /\ pc' = "done") =>
            /\ pc = "row"
            /\ idx = Len(input)
            /\ rejects_file' = Some(rejects)
            /\ rejects' = rejects]_vars
    /\ [](pc = "done" =>
            /\ rejects_file = Some(rejects)
            /\ Len(rejects) = stats.rows_rejected
            /\ stats.rows_read = Len(input)
            /\ RejectsInOrder)

\* a run over a file whose first two rows are rejected has ended and written
\* both entries, in file order
C13_Witness ==
    /\ pc = "done"
    /\ rejects_file # None
    /\ Len(Val(rejects_file)) = 2
    /\ Val(rejects_file)[1].csv_line_number = 4
    /\ Val(rejects_file)[2].csv_line_number = 5
    /\ stats.rows_read = 3

\* C14 (as stated): when a run is killed after it has processed some rows, the
\* reject entries of the rows it had rejected are in the reject file.
C14_AsStated ==
    pc = "killed" =>
       \A i \in 1..Len(rejects) :
          /\ rejects_file # None
          /\ \E j \in 1..Len(Val(rejects_file)) : Val(rejects_file)[j] = rejects[i]

\* C15: in a dry run no step changes the units collection or the geocode
\* cache, upsert_unit is never reached, and rows_inserted and rows_updated
\* are 0 throughout and at the end; a row that normalizes is still geocoded
\* and assigned a neighborhood before the loop goes on to the next row.
C15_DryRun ==
    /\ [][(args.dry_run /\ pc \in Running) =>
            /\ units' = units
            /\ cache' = cache
            /\ pc' # "persist"]_vars
    /\ []((args.dry_run /\ pc \in Running \cup {"done"}) =>
            /\ pc # "persist"
            /\ outcome = None
            /\ stats.rows_inserted = 0
            /\ stats.rows_updated = 0
            /\ (pc \in {"row", "done"} /\ doc # None /\ ~args.no_geocode) =>
                  /\ trace = <<"normalize", "geocode", "assign">>
                  /\ Val(doc).geocoding.status # "NOT_REQUESTED")

\* a dry run that follows a live run has ended: its last row was geocoded OK
\* and assigned a neighborhood, and the store holds what the live run left
C15_Witness ==
    /\ args.dry_run
    /\ pc = "done"
    /\ runs = 2
    /\ units # {}
    /\ stats.rows_read = 3
    /\ stats.geocoded_ok >= 1
    /\ doc # None
    /\ Val(doc).neighborhood_id # None

\* geocoding is requested without an API key, or persistence without a
\* connection string
MissingSetting ==
    \/ ~args.no_geocode /\ ~args.api_key
    \/ ~args.dry_run /\ ~args.mongo_uri

\* C16: a run started while geocoding is requested and the API key is missing,
\* or persistence is requested and the connection string is missing, aborts
\* at startup: no row is read, normalized, geocoded or persisted, no request
\* is made, and nothing is stored or written; no other run aborts.
C16_StartupAbort ==
    /\ []((pc \in Running \cup {"done", "crashed"}) => ~MissingSetting)
    /\ [](pc = "aborted" =>
            /\ MissingSetting
            /\ stats = NewStats
            /\ idx = 0
            /\ doc = None
            /\ trace = <<>>
            /\ rejects = <<>>
            /\ outcome = None
            /\ call.requests = 0
            /\ call.limiter_waits = 0)
    /\ [][pc' = "aborted" =>
            /\ units' = units
            /\ cache' = cache
            /\ rejects_file' = rejects_file
            /\ clock' = clock]_vars
    /\ [][pc = "aborted" => pc' \in {"row", "aborted"} /\ runs' = runs + 1]_vars

\* after a live run that stored records, a run asked to persist without a
\* connection string has aborted
C16_Witness ==
    /\ pc = "aborted"
    /\ runs = 2
    /\ ~args.dry_run
    /\ ~args.mongo_uri
    /\ args.api_key
    /\ units # {}
    /\ rejects_file # None

\* the latitude and longitude a row of the grocery or restaurant file carries
RowLat(row) == parse_float(get_field(row, <<"latitude", "lat">>))
RowLng(row) == parse_float(get_field(row, <<"longitude", "lng", "lon", "long">>))

\* the row under the loop while a row is being processed
CurrentRow == input[idx + 1]

\* the grocery or restaurant script is at a row that normalizes and carries
\* both coordinates
AtNativeRow ==
    /\ args.source \in {"grocery", "restaurants"}
    /\ idx < Len(input)
    /\ Normalize(args.source, CurrentRow).ok
    /\ RowLat(CurrentRow) # None
    /\ RowLng(CurrentRow) # None

\* d carries the coordinates of the row as its location, as source coordinates
KeepsNative(d, row) ==
    /\ d.location = [type |-> "Point", coordinates |-> <<RowLng(row), RowLat(row)>>]
    /\ d.geocoding.status = "SOURCE_COORDINATES"
    /\ ~d.sources[1].needs_geocoding

\* C17: for a row of the grocery or restaurant file with a valid latitude and
\* longitude no geocode call is made, with or without --no-geocode: the row
\* goes from normalization straight to the neighborhood step without a cache
\* lookup, a limiter wait or a request, and the record, as processed and as
\* stored, has location Point [lng, lat], geocoding status
\* SOURCE_COORDINATES and needs_geocoding false.
C17_NativeCoords ==
    /\ [][(pc = "row" /\ AtNativeRow) =>
            /\ pc' = "assign"
            /\ doc' # None
            /\ KeepsNative(Val(doc'), CurrentRow)
            /\ UNCHANGED <<call, limiter, lastGap, geocode_result, cache, firstLookup>>]_vars
    /\ []((pc \in {"assign", "persist"} /\ AtNativeRow) =>
            /\ KeepsNative(Val(doc), CurrentRow)
            /\ call = NoCall)
    /\ [][(pc = "persist" /\ AtNativeRow /\ pc' = "row") =>
            \E u \in units' :
               /\ u.dedupe_key = Val(doc).dedupe_key
               /\ KeepsNative(u, CurrentRow)]_vars

\* the grocery script, geocoding requested, is about to store the first row:
\* longitude 3 and latitude 1 are its location, a point of Dorchester, and
\* no request has been made
C17_Witness ==
    /\ pc = "persist"
    /\ args.source = "grocery"
    /\ ~args.no_geocode
    /\ idx = 0
    /\ Val(doc).location = [type |-> "Point", coordinates |-> <<Some(3), Some(1)>>]
    /\ Val(doc).geocoding.status = "SOURCE_COORDINATES"
    /\ Val(doc).neighborhood_id = Some(2)
    /\ call.requests = 0
    /\ lastGap = None

\* d is marked as skipped by --no-geocode
SkippedNoGeocode(d) ==
    /\ d.location = None
    /\ d.geocoding.status = "SKIPPED_NO_GEOCODE"
    /\ d.sources[1].needs_geocoding

\* C18: a --no-geocode run makes no geocode call for any row: no cache lookup,
\* no limiter wait, no request.  Every row that normalizes and is not kept
\* with native coordinates is processed and stored with location null,
\* geocoding status SKIPPED_NO_GEOCODE and needs_geocoding true (a farmers
\* row also with place_type farmers_market), under the dedupe_key that
\* normalization gave it; a re-run over a row a record was already made from
\* updates that record instead of inserting another.
C18_NoGeocode ==
    /\ []((args.no_geocode /\ pc \in Running \cup {"done"}) =>
            /\ pc \notin {"lookup", "attempt", "returned"}
            /\ call = NoCall)
    /\ [][(args.no_geocode /\ pc \in Running) =>
            UNCHANGED <<call, limiter, lastGap, geocode_result, cache, firstLookup>>]_vars
    /\ []((args.no_geocode /\ pc \in {"assign", "persist"} /\ ~AtNativeRow) =>
            /\ SkippedNoGeocode(Val(doc))
            /\ Val(doc).dedupe_key = Normalize(args.source, CurrentRow).doc.dedupe_key
            /\ args.source = "farmers" => Val(doc).place_type = "farmers_market")
    /\ [][(args.no_geocode /\ pc = "persist" /\ ~AtNativeRow /\ pc' = "row") =>
            /\ \E u \in units' :
                  /\ u.dedupe_key = Val(doc).dedupe_key
                  /\ SkippedNoGeocode(u)
            /\ (\E u \in units : /\ u.sources[1].raw = CurrentRow
                                  /\ u.place_type = Val(doc).place_type) =>
                  /\ outcome' = Some("updated")
                  /\ Cardinality(units') = Cardinality(units)]_vars

\* the farmers script, re-run with --no-geocode, is about to store the third
\* row, marked as skipped, over the record an earlier run made from it
C18_Witness ==
    /\ pc = "persist"
    /\ args.source = "farmers"
    /\ args.no_geocode
    /\ runs = 2
    /\ idx = 2
    /\ SkippedNoGeocode(Val(doc))
    /\ Val(doc).place_type = "farmers_market"
    /\ \E u \in units : u.dedupe_key = Val(doc).dedupe_key

\* doc is what normalize_row emitted for the current row: the row goes into
\* geocode_address, or was kept with its source coordinates
AsNormalized ==
    \/ pc = "lookup"
    \/ pc = "assign" /\ trace = <<"normalize", "source_coords">>

RowHasCoords(row) == RowLat(row) # None /\ RowLng(row) # None

NotRequested(d) ==
    /\ d.location = None
    /\ d.geocoding.status = "NOT_REQUESTED"
    /\ d.sources[1].needs_geocoding

\* C19 (as stated): for every source, normalize_row emits location null,
\* status NOT_REQUESTED and needs_geocoding true for a row without valid
\* coordinates, and the location, status SOURCE_COORDINATES and
\* needs_geocoding false for a row with a valid latitude and longitude.
C19_AsStated ==
    AsNormalized =>
       IF RowHasCoords(CurrentRow) THEN KeepsNative(Val(doc), CurrentRow)
       ELSE NotRequested(Val(doc))

\* C19 (amended): the grocery normalizer emits the location, status
\* SOURCE_COORDINATES and needs_geocoding false for a row with a valid
\* latitude and longitude, and location null, status NOT_REQUESTED and
\* needs_geocoding true for any other row; the restaurant normalizer does
\* the same except that the status of a row without both coordinates is
\* MISSING_SOURCE_COORDINATES; the farmers and pantry normalizers read no
\* coordinates and emit location null, NOT_REQUESTED and needs_geocoding
\* true for every row, also for one that carries a latitude and longitude.
C19_BySource ==
    AsNormalized =>
       LET d == Val(doc) IN
       CASE args.source = "grocery" ->
              IF RowHasCoords(CurrentRow) THEN KeepsNative(d, CurrentRow)
              ELSE NotRequested(d)
         [] args.source = "restaurants" ->
              IF RowHasCoords(CurrentRow) THEN KeepsNative(d, CurrentRow)
              ELSE /\ d.location = None
                   /\ d.geocoding.status = "MISSING_SOURCE_COORDINATES"
                   /\ d.sources[1].needs_geocoding
         [] args.source \in {"farmers", "pantries"} -> NotRequested(d)

\* the pantry script has normalized the first row, which carries a latitude
\* and a longitude, and sends it to geocode_address without a location
C19_Witness ==
    /\ pc = "lookup"
    /\ args.source = "pantries"
    /\ idx = 0
    /\ RowHasCoords(CurrentRow)
    /\ Val(doc).location = None
    /\ Val(doc).geocoding.status = "NOT_REQUESTED"

\* C20: the restaurant normalizer gives a row whose latitude and longitude
\* both parse as numbers the location Point [longitude, latitude], status
\* SOURCE_COORDINATES with confidence high, and needs_geocoding false; it
\* gives every other row it accepts location null, status
\* MISSING_SOURCE_COORDINATES without confidence, and needs_geocoding true;
\* the provider of both is source_csv.
C20_RestaurantCoords ==
    (args.source = "restaurants" /\ AsNormalized) =>
       LET d == Val(doc)
           lat == RowLat(CurrentRow)
           lng == RowLng(CurrentRow)
       IN  /\ d.geocoding.provider = "source_csv"
           /\ d.place_type = "restaurant"
           /\ IF lat # None /\ lng # None
              THEN /\ d.location # None
                   /\ d.location.type = "Point"
                   /\ d.location.coordinates = <<lng, lat>>
                   /\ d.geocoding.status = "SOURCE_COORDINATES"
                   /\ d.geocoding.confidence = Some("high")
                   /\ d.sources[1].needs_geocoding = FALSE
                   /\ pc = "assign"
              ELSE /\ d.location = None
                   /\ d.geocoding.status = "MISSING_SOURCE_COORDINATES"
                   /\ d.geocoding.confidence = None
                   /\ d.sources[1].needs_geocoding = TRUE
                   /\ pc = "lookup"

\* the restaurant script has normalized the third row, whose latitude is no
\* number: the row has no location and goes to geocode_address
C20_Witness ==
    /\ pc = "lookup"
    /\ args.source = "restaurants"
    /\ idx = 2
    /\ RowLng(CurrentRow) = Some(3)
    /\ RowLat(CurrentRow) = None
    /\ Val(doc).geocoding.status = "MISSING_SOURCE_COORDINATES"
    /\ Val(doc).location = None

\* lower-cased, with runs of white space collapsed
Fold(text) == LowerText(collapse_spaces(text))

\* the fields the key of a row is made of, as a script reads them: the name,
\* the address line, the city (boston when the row names none), the state
\* (MA in the farmers script, and when the row names none) and the
\* five-digit zip
KeyFields(source, row) ==
    LET city == clean_text(get_field(row, <<"city">>))
        state == clean_text(get_field(row, <<"state">>))
    IN  <<source,
          Fold(Val(clean_text(get_field(row, <<"name">>)))),
          Fold(Val(clean_text(get_field(row, <<"address">>)))),
          IF city = None THEN T_boston ELSE Fold(Val(city)),
          IF source = "farmers" \/ state = None THEN T_MA_lower ELSE Fold(Val(state)),
          normalize_zip(get_field(row, <<"zip">>))>>

\* C21: normalizing the same raw row twice gives the same record, key and
\* canonical fields included; and two rows a script accepts whose name,
\* address line, city, state and zip agree after lower-casing and collapsing
\* white space get the same dedupe_key, whatever their other columns hold.
C21_Deterministic ==
    (Len(trace) = 2 /\ trace[1].ok /\ trace[2].ok) =>
       /\ input[1] = input[2] => trace[1] = trace[2]
       /\ KeyFields(args.source, input[1]) = KeyFields(args.source, input[2]) =>
             trace[1].doc.dedupe_key = trace[2].doc.dedupe_key

\* the grocery normalizer has given the same key to two rows that differ in
\* letter case, runs of spaces and the zip's leading zero, and so in their
\* names and raw rows
C21_Witness ==
    /\ Len(trace) = 2
    /\ args.source = "grocery"
    /\ trace[1].ok /\ trace[2].ok
    /\ input[1].name = <<"A", "b">>
    /\ input[2].name = <<" ", "a", "B">>
    /\ trace[1].doc.name # trace[2].doc.name
    /\ trace[1].doc.address.city_raw # trace[2].doc.address.city_raw
    /\ trace[1].doc.dedupe_key = trace[2].doc.dedupe_key

RootKeys ==
    {"dedupe_key", "name", "datatype", "place_type", "subtype", "description", "address",
     "location", "geocoding", "contact", "neighborhood_id", "neighborhood_name", "sources"}

\* d has the root keys given and the nested key sets of a record, and one
\* sources entry
Shaped(d, root) ==
    /\ DOMAIN d = root
    /\ DOMAIN d.address =
          {"line1", "city_raw", "city_norm", "state", "zip", "formatted_address"}
    /\ DOMAIN d.geocoding =
          {"provider", "status", "place_id", "location_type", "partial_match", "confidence"}
    /\ DOMAIN d.contact = {"website", "phone"}
    /\ Len(d.sources) = 1
    /\ DOMAIN d.sources[1] =
          {"source_name", "source_file", "source_row_hash", "needs_geocoding", "raw"}

\* C22: the record of every script has the same root keys and the same keys
\* in address, geocoding, contact and its one sources entry, at every stage:
\* as normalized, after the --no-geocode override or apply_geocode_to_doc,
\* after the neighborhood assignment, and as stored, where created_at and
\* updated_at are added.
C22_SameShape ==
    /\ doc # None => Shaped(Val(doc), RootKeys)
    /\ \A u \in units : Shaped(u, RootKeys \cup {"created_at", "updated_at"})

\* the store holds a farmers record that was geocoded and a restaurant record
\* with source coordinates, and a third record is about to be stored
C22_Witness ==
    /\ pc = "persist"
    /\ \E u, v \in units :
          /\ u.datatype = "farmers market"
          /\ u.geocoding.status = "OK"
          /\ v.datatype = "restaurant"
          /\ v.geocoding.status = "SOURCE_COORDINATES"

\* the ids of the features whose geometry contains the point
ContainingIds(lng, lat) ==
    {Features[i].neighborhood_id :
        i \in {j \in 1..Len(Features) :
                  geometry_contains_point(Features[j].geometry, lng, lat)}}

\* the name the reference file gives the neighborhood with this id
ReferenceName(id) ==
    LET mapping == load_population_ids(env.population_csv).mapping IN
    mapping[CHOOSE i \in 1..Len(mapping) : mapping[i].id = id].name

\* C23: find_for_point returns the containing boundary with the smallest
\* neighborhood id, and nothing when no boundary contains the point; so a point
\* on the edge that two adjacent polygons share goes to the one with the lower
\* id, and a repeated call returns the same.
C23_LowestId ==
    \A k \in 1..Len(trace) :
       LET ids == ContainingIds(args.lng, args.lat) IN
       /\ ids = {} => trace[k] = None
       /\ ids # {} =>
             /\ trace[k] # None
             /\ \A id \in ids : Val(trace[k])[1] <= id
             /\ Val(trace[k])[1] \in ids
             /\ Val(trace[k])[2] = ReferenceName(Val(trace[k])[1])
       /\ trace[k] = trace[1]

\* the point <<2, 1>> lies on the edge that the squares of Roxbury and of
\* Dorchester share; both calls have returned Roxbury, which the file names
\* second
C23_Witness ==
    /\ env.geojson = BostonGeojson
    /\ args.lng = 2 /\ args.lat = 1
    /\ ContainingIds(2, 1) = {1, 2}
    /\ trace = <<Some(<<1, Roxbury>>), Some(<<1, Roxbury>>)>>

\* The point is on the same side of every edge of the closed ring, or on the
\* line of it: for a convex ring, it is inside the ring or on its edge.
InConvex(ring, lng, lat) ==
    LET side(i) == (ring[i + 1][1] - ring[i][1]) * (lat - ring[i][2])
                      - (ring[i + 1][2] - ring[i][2]) * (lng - ring[i][1])
        edges == 1..(Len(ring) - 1)
    IN  \/ \A i \in edges : side(i) >= 0
        \/ \A i \in edges : side(i) <= 0

InPolygon(rings, lng, lat) ==
    /\ rings # <<>>
    /\ InConvex(rings[1], lng, lat)
    /\ \A h \in 2..Len(rings) : ~InConvex(rings[h], lng, lat)

Within(geometry, lng, lat) ==
    IF geometry.type = "Polygon" THEN InPolygon(geometry.coordinates, lng, lat)
    ELSE /\ geometry.type = "MultiPolygon"
         /\ \E p \in 1..Len(geometry.coordinates) :
               InPolygon(geometry.coordinates[p], lng, lat)

\* C24: a Polygon contains a point exactly when the point is inside or on an
\* edge of its outer ring and neither inside nor on an edge of any of its hole
\* rings; a MultiPolygon contains it exactly when one of its polygons does.
C24_Containment ==
    outcome # None =>
       \A i \in 1..Len(Features) :
          Val(outcome)[i] = Within(Features[i].geometry, args.lng, args.lat)

\* <<3, 3>> is a corner of the hole of Roxbury, which therefore does not
\* contain it, and a corner of the square that is one part of Dorchester
C24_Witness ==
    /\ env.geojson = HolesGeojson
    /\ args.lng = 3 /\ args.lat = 3
    /\ Len(Features[1].geometry.coordinates) = 2
    /\ Features[2].geometry.type = "MultiPolygon"
    /\ outcome = Some(<<FALSE, TRUE>>)

\* the object carries a longitude and a latitude, under location or under
\* flat keys
HasPoint(obj) ==
    \/ /\ "location" \in DOMAIN obj
       /\ obj.location # None
       /\ obj.location.coordinates[1] # None
       /\ obj.location.coordinates[2] # None
    \/ /\ \E k \in {"longitude", "lng"} \cap DOMAIN obj : obj[k] # None
       /\ \E k \in {"latitude", "lat"} \cap DOMAIN obj : obj[k] # None

\* the neighborhood fields of obj are both null when the point is FALSE or no
\* boundary contains <<lng, lat>>, and are the id and the name of one boundary
\* that contains it otherwise
AssignedAt(obj, point, lng, lat) ==
    IF ~point \/ ContainingIds(lng, lat) = {}
    THEN obj.neighborhood_id = None /\ obj.neighborhood_name = None
    ELSE \E i \in 1..Len(Features) :
            /\ geometry_contains_point(Features[i].geometry, lng, lat)
            /\ obj.neighborhood_id = Some(Features[i].neighborhood_id)
            /\ obj.neighborhood_name = Some(Features[i].neighborhood_name)

\* C25: after assign_to_object, neighborhood_id and neighborhood_name are both
\* null when the object has no coordinates or no boundary contains its point,
\* and otherwise the id and the name of one boundary that contains the point,
\* whatever the two fields held before.
C25_AsStated ==
    pc = "done" => AssignedAt(Val(doc), HasPoint(Val(doc)), args.lng, args.lat)

\* The same, where a longitude or latitude of 0 under the key "longitude" or
\* "latitude" counts as no coordinate when the key "lng" or "lat" is absent.
C25_ZeroIsNoCoordinate ==
    pc = "done" =>
       LET obj == Val(doc)
           zero == /\ "longitude" \in DOMAIN obj
                   /\ 0 \in {args.lng, args.lat}
       IN  AssignedAt(obj, HasPoint(obj) /\ ~zero, args.lng, args.lat)

\* the reference file names a neighborhood of which the boundaries file has no
\* boundary with the same canonical name
Uncovered ==
    LET rows == Val(env.population_csv).rows
        features == Val(Val(env.geojson).features)
    IN  \E r \in 1..Len(rows) :
           /\ StrippedOrEmpty(rows[r]) # <<>>
           /\ \A f \in 1..Len(features) :
                 \/ StrippedOrEmpty(features[f].name) = <<>>
                 \/ canonicalize_name(StrippedOrEmpty(features[f].name))
                       # canonicalize_name(StrippedOrEmpty(rows[r]))

\* C26: when a neighborhood of the reference file has no boundary of the same
\* canonical name, the mapper cannot be built, and as every script builds it
\* first, a run ends at its start: no row is read, geocoded or stored.
C26_AbortsAtStartup ==
    Uncovered =>
       /\ ~Mapper.ok
       /\ pc \in {"idle", "aborted"}
       /\ input = <<>> /\ idx = 0 /\ stats = NewStats /\ trace = <<>>
       /\ doc = None /\ call = NoCall /\ cache = EmptyMap /\ units = {}
       /\ rejects = <<>> /\ rejects_file = None

\* a run with every setting it needs has ended at its start, over the file
\* without a boundary of Dorchester
C26_Witness ==
    /\ Uncovered
    /\ env.geojson = RoxburyOnlyGeojson
    /\ pc = "aborted"
    /\ runs = 1
    /\ StartupOk(args)

OtherMode(store_mode) ==
    IF store_mode = STORE_MODE_COORDS THEN STORE_MODE_PLACE_ID_ONLY ELSE STORE_MODE_COORDS

\* the record of the row as the run would store it had it been started in the
\* other store mode: the same normalized record and the same geocode result
InOtherMode ==
    assign_to_object(apply_geocode_to_doc(Val(doc), geocode_result,
                                          OtherMode(args.store_mode)))

\* C28: when a geocode result is applied, the record that the run goes on to
\* store differs from the record of the same row and result in the other store
\* mode in location only: geocoding, needs_geocoding, neighborhood_id and
\* neighborhood_name are the same.  (The counters and the reject log are not
\* computed from the store mode.)
C28_AsStated ==
    [][(pc = "returned" /\ pc' = "assign") =>
          [assign_to_object(Val(doc')) EXCEPT !.location = None]
             = [InOtherMode EXCEPT !.location = None]]_vars

\* The same apart from the neighborhood, which a record without location
\* does not get.
C28_ApartFromNeighborhood ==
    [][(pc = "returned" /\ pc' = "assign") =>
          [assign_to_object(Val(doc')) EXCEPT
              !.location = None, !.neighborhood_id = None, !.neighborhood_name = None]
             = [InOtherMode EXCEPT
                  !.location = None, !.neighborhood_id = None, !.neighborhood_name = None]]_vars

GeocodeOrSkip == {"geocode", "skip", "source_coords"}

\* the stages of a row that has come to its end; withoutStore tells whether a
\* row may end with its assignment
Finished(t, withoutStore) ==
    \/ t = <<"reject">>
    \/ /\ Len(t) \in (IF withoutStore THEN {3} ELSE {}) \cup {4}
       /\ t[1] = "normalize"
       /\ t[2] \in GeocodeOrSkip
       /\ t[3] = "assign"
       /\ Len(t) = 4 => t[4] \in {"persist", "reject"}

\* the stages of a row that is in hand
Underway(t) ==
    \/ t = <<"normalize">>
    \/ Len(t) = 2 /\ t[1] = "normalize" /\ t[2] \in GeocodeOrSkip
    \/ Len(t) = 3 /\ t[1] = "normalize" /\ t[2] \in GeocodeOrSkip /\ t[3] = "assign"

\* Between two rows the row before has come to its end, and within a row the
\* stages so far are in order; from its assignment on, the record holds the
\* neighborhood of its location.
StagesInOrder(withoutStore) ==
    /\ pc \in {"row", "done"} => trace = <<>> \/ Finished(trace, withoutStore)
    /\ pc \in {"lookup", "attempt", "returned"} => trace = <<"normalize">>
    /\ pc = "assign" => Len(trace) = 2 /\ Underway(trace)
    /\ pc = "persist" => Len(trace) = 3 /\ Underway(trace)
    /\ (Len(trace) >= 3 /\ doc # None) => Val(doc) = assign_to_object(Val(doc))

\* The store changes only for a row that has its assignment behind it, and a
\* row starts only when the row before has come to its end.
StagesStep(withoutStore) ==
    /\ units' # units => Len(trace) = 3 /\ Underway(trace) /\ trace' = Append(trace, "persist")
    /\ idx' = idx + 1 => Finished(trace', withoutStore)
    /\ (idx' = idx /\ trace' # trace /\ Len(trace') <= 2 /\ trace' # <<>> /\ Len(trace) # 1)
          => pc = "row" /\ (trace = <<>> \/ Finished(trace, withoutStore))

\* C29 as it is worded: every row that normalizes goes through normalize,
\* geocode-or-skip, assign-neighborhood and persist-or-reject in this order,
\* and ends persisted or rejected before the next row starts.
C29_AsStated ==
    /\ []StagesInOrder(FALSE)
    /\ [][StagesStep(FALSE)]_vars

\* C29: every row that normalizes goes through normalize, geocode-or-skip and
\* assign-neighborhood in this order, the assignment made once, after the
\* geocode step whatever its outcome, and before the upsert; the row then ends
\* persisted or rejected, or in a dry run with its assignment, before the next
\* row starts.
C29_StagesInOrder ==
    /\ []StagesInOrder(args.dry_run)
    /\ [][StagesStep(args.dry_run)]_vars

\* a row whose result came from the cache has been stored, after a row whose
\* geocoding had failed, and the next row has not started
C29_Witness ==
    /\ pc = "row"
    /\ ~args.dry_run
    /\ geocode_result.from_cache
    /\ trace = <<"normalize", "geocode", "assign", "persist">>
    /\ \E u \in units : u.geocoding.status # "OK"

\* a row of a dry run has ended with its assignment
C29_DryRunWitness ==
    /\ pc = "row"
    /\ args.dry_run
    /\ trace = <<"normalize", "geocode", "assign">>

\* C30: when geocode_address returns on a provider response, a status OK with
\* at least one result gives place_id, formatted_address, lat, lng,
\* location_type and partial_match of the first result; any other status, or
\* an empty result list, gives the provider's status with these fields and the
\* confidence all null.
C30_Classified ==
    [][(pc = "attempt" /\ pc' = "returned" /\ call'.last.kind = "payload") =>
          LET status == call'.last.status
              results == call'.last.results
              g == geocode_result'
          IN  /\ g.status = status
              /\ IF status = "OK" /\ results # <<>>
                 THEN /\ g.place_id = results[1].place_id
                      /\ g.formatted_address = results[1].formatted_address
                      /\ g.lat = results[1].lat
                      /\ g.lng = results[1].lng
                      /\ g.location_type = results[1].location_type
                      /\ g.partial_match = results[1].partial_match
                 ELSE /\ g.place_id = None
                      /\ g.formatted_address = None
                      /\ g.lat = None
                      /\ g.lng = None
                      /\ g.location_type = None
                      /\ g.partial_match = None
                      /\ g.confidence = None]_vars

\* the provider has answered ZERO_RESULTS next to a result list that is not
\* empty, and the call has returned that status without a place id
C30_Witness ==
    /\ pc = "returned"
    /\ call.last.kind = "payload"
    /\ call.last.status = "ZERO_RESULTS"
    /\ call.last.results # <<>>
    /\ geocode_result.status = "ZERO_RESULTS"
    /\ geocode_result.place_id = None

\* the confidence of a location type and a partial-match flag, by the table
ConfidenceTable(location_type, partial_match) ==
    CASE location_type \in {None, Some("")} -> None
      [] location_type \notin {None, Some("")} /\ partial_match = Some(TRUE) -> Some("low")
      [] location_type = Some("ROOFTOP") /\ partial_match # Some(TRUE) -> Some("high")
      [] location_type \in {Some("RANGE_INTERPOLATED"), Some("GEOMETRIC_CENTER")}
            /\ partial_match # Some(TRUE) -> Some("medium")
      [] OTHER -> Some("low")

\* C31: the confidence of a returned OK result is high for ROOFTOP without
\* partial match, medium for RANGE_INTERPOLATED or GEOMETRIC_CENTER without
\* partial match, low for any other location type and for any partial match of
\* a result that has a location type, and null without a location type; on a
\* cache hit it is the one derived from location_type and partial_match of the
\* cached entry.
C31_Confidence ==
    (pc = "returned" /\ geocode_result.status = "OK") =>
       /\ geocode_result.confidence
             = ConfidenceTable(geocode_result.location_type, geocode_result.partial_match)
       /\ geocode_result.from_cache =>
             geocode_result.confidence
                = ConfidenceTable(cache[call.q_hash].location_type,
                                  cache[call.q_hash].partial_match)

\* a cache hit on an entry of type ROOFTOP with a partial match has returned
\* the confidence low
C31_Witness ==
    /\ pc = "returned"
    /\ geocode_result.from_cache
    /\ cache[call.q_hash].location_type = Some("ROOFTOP")
    /\ cache[call.q_hash].partial_match = Some(TRUE)
    /\ geocode_result.confidence = Some("low")

\* a record without what the geocode step and the neighborhood assignment
\* write: geocoding, address.formatted_address, location,
\* sources[0].needs_geocoding, neighborhood_id and neighborhood_name
Frame(d) ==
    [d EXCEPT !.geocoding = None, !.address.formatted_address = None, !.location = None,
              !.sources[1].needs_geocoding = TRUE,
              !.neighborhood_id = None, !.neighborhood_name = None]

\* the row in hand has been normalized and has not come to its end
InHand == pc \in {"lookup", "attempt", "returned", "assign", "persist"}

\* C32: geocode_address leaves the record as it is, and the record in hand is
\* the normalized record of its row but for geocoding,
\* address.formatted_address, location, sources[0].needs_geocoding and the
\* two neighborhood fields: dedupe_key, name, datatype, place_type, subtype,
\* description, contact and the other address fields keep their values through
\* geocoding and neighborhood assignment.
C32_Frame ==
    /\ [](InHand => Frame(Val(doc)) = Frame(Normalize(args.source, input[idx + 1]).doc))
    /\ [][(pc \in {"lookup", "attempt"}) => (doc' = doc)]_vars

\* a geocode result has been applied and the neighborhood assigned: the
\* record has a formatted address, a location and a neighborhood
C32_Witness ==
    /\ pc = "persist"
    /\ Val(doc).geocoding.status = "OK"
    /\ Val(doc).address.formatted_address # None
    /\ Val(doc).location # None
    /\ Val(doc).neighborhood_id # None
    /\ Val(doc).address.line1 = <<"1", " ", "S", "t">>

\* the rows of the reference file in hand, and those with a name
ReferenceRows ==
    IF env.population_csv = None \/ "Neighborhood" \notin Val(env.population_csv).fieldnames
    THEN <<>> ELSE Val(env.population_csv).rows

Named == {r \in 1..Len(ReferenceRows) : StrippedOrEmpty(ReferenceRows[r]) # <<>>}

KeyOfRow(r) == canonicalize_name(StrippedOrEmpty(ReferenceRows[r]))

\* the first row with this canonical name
FirstRow(key) == CHOOSE r \in Named : KeyOfRow(r) = key /\ \A q \in Named : KeyOfRow(q) = key => r <= q

\* C33: load_population_ids gives the ids 1, 2, 3, ... to the distinct
\* canonical names of the reference file in the order of their first rows:
\* a blank name and a later row whose name has a canonical name already seen
\* get no id, so the ids are contiguous and one per canonical name, and a
\* second call over the same file gives the same ids.
C33_FirstSeenIds ==
    \A k \in 1..Len(trace) :
       /\ trace[k] = trace[1]
       /\ trace[k].ok <=> Named # {}
       /\ trace[k].ok =>
             LET mapping == trace[k].mapping IN
             /\ \A i \in 1..Len(mapping) : mapping[i].id = i
             /\ {mapping[i].key : i \in 1..Len(mapping)} = {KeyOfRow(r) : r \in Named}
             /\ \A i, j \in 1..Len(mapping) :
                   /\ i # j => mapping[i].key # mapping[j].key
                   /\ i < j => FirstRow(mapping[i].key) < FirstRow(mapping[j].key)
             /\ \A i \in 1..Len(mapping) :
                   mapping[i].name = StrippedOrEmpty(ReferenceRows[FirstRow(mapping[i].key)])

\* the file names "Cd", then "a-b", then " A.B": the last has the canonical
\* name of the second, and both calls gave the ids 1 and 2
C33_Witness ==
    /\ ReferenceRows = <<Some(<<"C", "d">>), Some(<<"a", "-", "b">>), Some(<<" ", "A", ".", "B">>)>>
    /\ Len(trace) = 2
    /\ trace[2].ok
    /\ trace[2].mapping = <<[key |-> <<"c", "d">>, id |-> 1, name |-> <<"C", "d">>],
                            [key |-> <<"a", " ", "b">>, id |-> 2, name |-> <<"a", "-", "b">>]>>

\* the phone of a row as the script reads it, stripped; None when blank
RawPhone(row) == IF "phone" \in DOMAIN row THEN clean_text(Some(row.phone)) ELSE None

\* phone is what the rule makes of the raw text: +1 and the digits for ten
\* digits, + and the digits for eleven digits that start with 1, and otherwise
\* a text that holds the digits and the raw text
ByPhoneRule(phone, raw) ==
    LET digits == DigitsOf(raw) IN
    /\ phone # None
    /\ IF Len(digits) = 10 THEN Val(phone) = <<"+", "1">> \o digits
       ELSE IF Len(digits) = 11 /\ Head(digits) = "1" THEN Val(phone) = <<"+">> \o digits
       ELSE /\ digits # <<>> => Contains(Val(phone), digits)
            /\ Contains(Val(phone), raw)

PhoneOf(k) == trace[k].doc.contact.phone

\* C34: in the scripts that normalize a phone, a phone that is not blank is
\* never null after normalization: ten digits give +1 and the digits, eleven
\* digits that start with 1 give + and the digits, and anything else gives a
\* text that keeps both the digits and the raw input.
C34_AsStated ==
    \A k \in 1..Len(trace) :
       (args.source \in {"farmers", "restaurants"} /\ RawPhone(input[k]) # None) =>
          ByPhoneRule(PhoneOf(k), Val(RawPhone(input[k])))

\* The same for the farmers script alone.
C34_Farmers ==
    \A k \in 1..Len(trace) :
       (args.source = "farmers" /\ RawPhone(input[k]) # None) =>
          ByPhoneRule(PhoneOf(k), Val(RawPhone(input[k])))

\* C35: throughout a run rows_skipped and rows_rejected both are the number
\* of entries of the reject log, and at the end of a run that is no dry run
\* rows_read = rows_inserted + rows_updated + rows_rejected.
C35_Accounting ==
    /\ stats.rows_skipped = stats.rows_rejected
    /\ stats.rows_rejected = Len(rejects)
    /\ (pc = "done" /\ ~args.dry_run) =>
          /\ stats.rows_read = stats.rows_inserted + stats.rows_updated + stats.rows_rejected
          /\ stats.rows_read = Len(input)
          /\ rejects_file = Some(rejects)

\* a run has ended with a row inserted, a row updated and a row rejected
C35_Witness ==
    /\ pc = "done"
    /\ ~args.dry_run
    /\ stats.rows_inserted = 1 /\ stats.rows_updated = 1 /\ stats.rows_rejected = 1
    /\ stats.rows_read = 3

\* C36: every entry of the geocode cache has a latitude and a longitude, so
\* in store_coords mode a row whose result came from the cache has a location
\* once the result is applied.
C36_AsStated ==
    /\ \A h \in DOMAIN cache : cache[h].lat # None /\ cache[h].lng # None
    /\ (GeocodeApplied /\ geocode_result.from_cache /\ args.store_mode = STORE_MODE_COORDS)
          => Val(doc).location # None

\* The row in hand was served from the cache in store_coords mode, by an entry
\* without coordinates, and has no location.
C36_NullEntryServed ==
    /\ GeocodeApplied
    /\ geocode_result.from_cache
    /\ args.store_mode = STORE_MODE_COORDS
    /\ cache[geocode_result.query_hash].lat = None
    /\ Val(doc).location = None
    /\ Val(doc).geocoding.status = "OK"

\* the stored records with the key of the document in hand
StoredNow(collection) == {u \in collection : u.dedupe_key = Val(doc).dedupe_key}

\* C37: after an upsert that succeeded, the collection holds one record with
\* the key of the document, and this record is the document on every field of
\* the document, whatever was stored before: a document without location
\* replaces a stored location and neighborhood by null, and sources is the one
\* entry of this write.
C37_Replaces ==
    [][(pc = "persist" /\ trace' = Append(trace, "persist")) =>
          /\ Cardinality(StoredNow(units')) = 1
          /\ \A u \in StoredNow(units') :
                /\ [k \in DOMAIN Val(doc) |-> u[k]] = Val(doc)
                /\ Len(u.sources) = 1
                /\ Val(doc).location = None =>
                      /\ u.location = None
                      /\ u.neighborhood_id = None /\ u.neighborhood_name = None]_vars

\* the first row of a second run, a run with --no-geocode, has been written
\* over the record of the first run: the record has no location and no
\* neighborhood
C37_Witness ==
    /\ pc = "row"
    /\ runs = 2
    /\ args.no_geocode
    /\ trace = <<"normalize", "skip", "assign", "persist">>
    /\ outcome = Some("updated")
    /\ \A u \in StoredNow(units) :
          /\ u.location = None /\ u.neighborhood_id = None
          /\ u.geocoding.status = "SKIPPED_NO_GEOCODE"
          /\ u.created_at < u.updated_at

\* This does not hold, as the second run of the witness shows: no upsert
\* replaces a stored location by null.
C37_NoLocationLost ==
    [][\A u \in units : u.location # None =>
          \A v \in units' : v.dedupe_key = u.dedupe_key => v.location # None]_vars

\* C38: two rows of one script have the same dedupe_key only if their name,
\* address line, city used for the key, state and zip agree field by field
\* after lower-casing and collapsing white space.
C38_AsStated ==
    (Len(trace) = 2 /\ trace[1].ok /\ trace[2].ok) =>
       (trace[1].doc.dedupe_key = trace[2].doc.dedupe_key =>
           KeyFields(args.source, input[1]) = KeyFields(args.source, input[2]))

\* the farmers normalizer has given one key to a row named a|b at the address
\* c and a row named a at the address b|c
C38_Confused ==
    /\ Len(trace) = 2
    /\ args.source = "farmers"
    /\ trace[1].ok /\ trace[2].ok
    /\ trace[1].doc.name = <<"a", "|", "b">>
    /\ trace[2].doc.name = <<"a">>
    /\ trace[1].doc.address.line1 # trace[2].doc.address.line1
    /\ trace[1].doc.dedupe_key = trace[2].doc.dedupe_key

\* The same holds of rows none of whose key fields holds the joining character.
C38_WithoutBar ==
    (Len(trace) = 2 /\ trace[1].ok /\ trace[2].ok) =>
       ((/\ \A k \in 1..2, j \in 2..5 :
               ~Contains(KeyFields(args.source, input[k])[j], <<"|">>)
         /\ trace[1].doc.dedupe_key = trace[2].doc.dedupe_key) =>
           KeyFields(args.source, input[1]) = KeyFields(args.source, input[2]))

\* SOURCE_NAME of a script
NameOfSource(source) ==
    CASE source = "farmers" -> SOURCE_NAME
      [] source = "grocery" -> GROCERY_SOURCE_NAME
      [] source = "restaurants" -> RESTAURANTS_SOURCE_NAME
      [] source = "pantries" -> PANTRIES_SOURCE_NAME

CameFrom(u) == u.sources[1].source_name

\* C39: in the collection the four scripts share, records of different
\* sources never have the same dedupe_key, whatever the order of the runs; and
\* an upsert finds under its key only a record of the source of its own run,
\* and leaves every record of another source as it is.
C39_SourcesApart ==
    /\ [](\A u \in units, v \in units :
             CameFrom(u) # CameFrom(v) => u.dedupe_key # v.dedupe_key)
    /\ [][(pc = "persist" /\ trace' = Append(trace, "persist")) =>
             /\ \A u \in units :
                   u.dedupe_key = Val(doc).dedupe_key => CameFrom(u) = NameOfSource(args.source)
             /\ \A u \in units :
                   CameFrom(u) # NameOfSource(args.source) => u \in units']_vars

\* the second run, of another script than the first, has inserted its record
\* of a row next to the record the first run stored of the same row
C39_Witness ==
    /\ pc = "row"
    /\ runs = 2
    /\ outcome = Some("inserted")
    /\ trace[Len(trace)] = "persist"
    /\ \E u \in units, v \in units :
          /\ CameFrom(u) # NameOfSource(args.source)
          /\ CameFrom(v) = NameOfSource(args.source)
          /\ v.dedupe_key = Val(doc).dedupe_key
          /\ u.name = v.name /\ u.address.line1 = v.address.line1
          /\ u.created_at < v.created_at

====
